---------------------------- MODULE Spec2Model ----------------------------
(***************************************************************************)
(* A model of the evaluation backend: backend/runner.py (run_evaluation   *)
(* and its helpers), backend/app.py (the /v1/evaluate handler),           *)
(* backend/evidence_store.py, backend/deepeval_resolver.py and            *)
(* backend/test_case_adapter.py.                                          *)
(*                                                                         *)
(* Conventions.                                                            *)
(*  - Python's None, and an absent dict key read through .get(), are the   *)
(*    empty tuple None; a present value v is the one-element tuple <<v>>.  *)
(*  - A Python str that the code inspects (constraint text, a scorer's     *)
(*    reason) is a tuple of one-character strings, so that lower(),        *)
(*    strip(), `in`, split() and int() are computed, not assumed.          *)
(*  - Scores and thresholds are integers in tenths (7 is 0.7); a mean is   *)
(*    the exact fraction [num, den] in lowest terms.                       *)
(***************************************************************************)
EXTENDS Integers, Sequences, FiniteSets, TLC

VARIABLES
    catalogue,      \* the catalogue document load_schema returned: its metric entries
    startup,        \* position of the module import: "importing", "failed", "serving"
    published,      \* the module-level _metric_index (None until it is assigned)
    req,            \* the request being served: endpoint, metrics, test_cases
    pc,             \* position of the handler / of run_evaluation
    run_id,         \* run_id of the current run (0: none produced yet)
    runs,           \* number of run_ids handed out so far (uuid4 is fresh each time)
    i,              \* index of the metric selection being processed (for msel in metrics)
    init_params,    \* the per-selection copy of init_params, after merge and injection
    metric_obj,     \* the instantiated scorer (None before instantiation)
    j,              \* index of the test case being measured (for tc in test_cases)
    metric_scores,  \* per-test-case scores of the current selection
    metric_reasons, \* stripped non-empty reasons of the current selection
    results,        \* run_evaluation's result list
    evidence,       \* the evidence accumulator: metrics, test_cases, metric_evidence, gaps
    exc,            \* an exception propagating out of run_evaluation / write_evidence
    store,          \* the artifact directory: run_id -> what exists at the run's location
    response,       \* the HTTP response of the current request (None until sent)
    calls,          \* history: calls into the scorer library and the evidence store
                    \* made for this request, in order
    served          \* history: the responses to the earlier submissions of the request

vars == <<catalogue, startup, published, req, pc, run_id, runs, i, init_params, metric_obj, j, metric_scores,
          metric_reasons, results, evidence, exc, store, response, calls, served>>

-----------------------------------------------------------------------------
(* Bounds of the model. *)

MaxMetrics == 2
MaxTestCases == 2
MaxRequests == 2
MaxEntries == 3

\* test cases per request in the requests of SpecScores
MaxScored == 5

-----------------------------------------------------------------------------
(* Python values. *)

None == <<>>

Some(v) == <<v>>

IsNone(x) == x = None

Val(x) == x[1]

RECURSIVE SumSeq(_)
SumSeq(s) == IF s = <<>> THEN 0 ELSE Head(s) + SumSeq(Tail(s))

RECURSIVE Gcd(_, _)
Gcd(a, b) == IF b = 0 THEN a ELSE Gcd(b, a % b)

\* mutant of Take: the slice keeps the whole list
TakeAll(s, n) == s

\* s[:n]
Take(s, n) == SubSeq(s, 1, IF Len(s) < n THEN Len(s) ELSE n)

-----------------------------------------------------------------------------
(* Python str operations on tuples of characters. *)

Whitespace == {" ", "\t", "\n"}

Digits == <<"0", "1", "2", "3", "4", "5", "6", "7", "8", "9">>

UpperToLower ==
    [c \in {"A", "C", "E", "I", "M", "O", "X"} |->
        CASE c = "A" -> "a" [] c = "C" -> "c" [] c = "E" -> "e" [] c = "I" -> "i"
          [] c = "M" -> "m" [] c = "O" -> "o" [] c = "X" -> "x"]

\* str.lower()
Lower(s) == [k \in 1..Len(s) |-> IF s[k] \in DOMAIN UpperToLower THEN UpperToLower[s[k]] ELSE s[k]]

RECURSIVE LStrip(_)
LStrip(s) == IF s # <<>> /\ Head(s) \in Whitespace THEN LStrip(Tail(s)) ELSE s

RECURSIVE RStrip(_)
RStrip(s) == IF s # <<>> /\ s[Len(s)] \in Whitespace THEN RStrip(SubSeq(s, 1, Len(s) - 1)) ELSE s

\* str.strip()
Strip(s) == RStrip(LStrip(s))

\* str.find(sub) + 1: the position of the first occurrence of sub in s, 0 when there is none
IndexOf(sub, s) ==
    LET hits == {k \in 1..(Len(s) - Len(sub) + 1) : SubSeq(s, k, k + Len(sub) - 1) = sub}
    IN  IF hits = {} THEN 0 ELSE CHOOSE k \in hits : \A h \in hits : k <= h

\* sub in s
Contains(sub, s) == IndexOf(sub, s) # 0

\* s.split(sep)[0]: the text before the first sep, all of s when sep does not occur
SplitFirst(s, sep) ==
    LET k == IndexOf(sep, s) IN IF k = 0 THEN s ELSE SubSeq(s, 1, k - 1)

\* s.split(sep)[1], for s containing sep: the text between the first sep and the next one
SplitSecond(s, sep) ==
    LET k == IndexOf(sep, s) IN SplitFirst(SubSeq(s, k + Len(sep), Len(s)), sep)

DigitValue(c) == CHOOSE d \in 0..9 : Digits[d + 1] = c

IsDigit(c) == \E d \in 1..10 : Digits[d] = c

RECURSIVE DecimalValue(_)
DecimalValue(s) ==
    IF s = <<>> THEN 0 ELSE 10 * DecimalValue(SubSeq(s, 1, Len(s) - 1)) + DigitValue(s[Len(s)])

\* int(s): Some(n) for an optionally signed decimal numeral (surrounding whitespace
\* allowed), None where Python raises ValueError. Digit-group underscores ("1_0")
\* are not modelled.
ParseInt(s) ==
    LET t == Strip(s)
        signed == t # <<>> /\ Head(t) \in {"+", "-"}
        body == IF signed THEN Tail(t) ELSE t
    IN  IF body # <<>> /\ \A k \in 1..Len(body) : IsDigit(body[k])
        THEN Some(IF signed /\ Head(t) = "-" THEN 0 - DecimalValue(body) ELSE DecimalValue(body))
        ELSE None


-----------------------------------------------------------------------------
(* Python dicts over a fixed universe of keys (init_params). *)

ParamNames == {"threshold", "model", "criteria"}

EmptyDict == [has |-> {}, val |-> [p \in ParamNames |-> None]]

\* d.get(p)
Get(d, p) == IF p \in d.has THEN d.val[p] ELSE None

\* d[p] = v, with v a Python value (None or Some(_))
Put(d, p, v) == [has |-> d.has \cup {p}, val |-> [d.val EXCEPT ![p] = v]]

\* d.setdefault(p, v)
SetDefault(d, p, v) == IF p \in d.has THEN d ELSE Put(d, p, v)

-----------------------------------------------------------------------------
(* The metric catalogue (schema_registry.py).  The catalogue document is    *)
(* deployment data; _schema is a catalogue with one metric for each path of *)
(* the runner.  An entry lists the metrics of the eval_types categories in  *)
(* iteration order; an absent key of an entry is None.                      *)

C_INPUT_1 == <<"I","n","p","u","t"," ","m","u","s","t"," ","c","o","n","t","a","i","n"," ","e","x","a","c","t","l","y"," ","1"," ","i","m","a","g","e">>

C_OUTPUT_2 == <<"a","c","t","u","a","l","_","o","u","t","p","u","t"," ","m","u","s","t"," ","c","o","n","t","a","i","n"," ","e","x","a","c","t","l","y"," ","2"," ","i","m","a","g","e","s"," ">>

C_INPUT_ONE == <<"i","n","p","u","t"," ","m","u","s","t"," ","c","o","n","t","a","i","n"," ","e","x","a","c","t","l","y"," ","o","n","e"," ","i","m","a","g","e">>

C_CONTEXT == <<"r","e","t","r","i","e","v","a","l","_","c","o","n","t","e","x","t"," ","m","u","s","t"," ","n","o","t"," ","b","e"," ","e","m","p","t","y">>

SchemaEntry(id, name, cls, kind, fields, required, optional, semantics, constraints) ==
    [metric_id |-> Some(id), metric_name |-> name, metric_class |-> Some(cls),
     test_case_type |-> Some(kind), required_test_case_fields |-> fields,
     required_metric_init_params |-> required, optional_metric_init_params |-> optional,
     threshold_semantics |-> semantics, constraints |-> constraints]

_schema == <<
    SchemaEntry("rag.answer_relevancy", Some("Answer Relevancy"), "AnswerRelevancyMetric",
                "LLMTestCase", Some(<<"input", "actual_output">>), None,
                Some(<<"threshold", "model">>), None, None),
    SchemaEntry("rag.faithfulness", Some("Faithfulness"), "FaithfulnessMetric",
                "LLMTestCase", Some(<<"input", "actual_output", "retrieval_context">>), None,
                Some(<<"threshold", "model">>), Some("minimum_is_passing"),
                Some(<<C_CONTEXT>>)),
    SchemaEntry("safety.toxicity", Some("Toxicity"), "ToxicityMetric",
                "LLMTestCase", Some(<<"input", "actual_output">>), None,
                Some(<<"threshold", "model">>), Some("maximum_is_passing"), None),
    SchemaEntry("multiturn.turn_relevancy", Some("Turn Relevancy"), "TurnRelevancyMetric",
                "ConversationalTestCase", None, None,
                Some(<<"threshold", "model">>), None, None),
    SchemaEntry("arena.arena_g_eval", None, "ArenaGEval",
                "ArenaTestCase", None, None, None, None, None),
    SchemaEntry("multimodal.image_editing", Some("Image Editing"), "ImageEditingMetric",
                "LLMTestCase", Some(<<"input">>), None,
                Some(<<"threshold">>), None, Some(<<C_INPUT_1, C_OUTPUT_2>>)),
    SchemaEntry("multimodal.image_reference", Some("Image Reference"), "ImageReferenceMetric",
                "LLMTestCase", Some(<<"input">>), None,
                Some(<<"threshold">>), None, Some(<<C_INPUT_ONE>>)),
    SchemaEntry("custom.g_eval", Some("G-Eval"), "GEval",
                "LLMTestCase", Some(<<"input", "actual_output">>),
                Some(<<"criteria", "threshold", "model">>),
                Some(<<"model">>), None, None),
    SchemaEntry("others.summarization", Some("Summarization"), "SummarizationMetricV0",
                "LLMTestCase", Some(<<"input", "actual_output">>), None,
                Some(<<"threshold", "model">>), None, None),
    SchemaEntry("agent.task_completion", Some("Task Completion"), "TaskCompletionMetric",
                "MLLMTestCase", Some(<<"input", "actual_output">>), None,
                Some(<<"threshold", "model">>), None, None),
    SchemaEntry("non_llm.exact_match", Some("Exact Match"), "ExactMatchMetric",
                "LLMTestCase", Some(<<"actual_output">>), None, None, None, None) >>

\* x or [] / m.get(key, default): the value of an optional entry key
OrDefault(x, default) == IF IsNone(x) THEN default ELSE Val(x)

\* MetricDef(...) as build_metric_index constructs it from catalogue entry m
MetricDef(m) ==
    [metric_id |-> Val(m.metric_id),
     metric_name |-> OrDefault(m.metric_name, Val(m.metric_id)),
     metric_class |-> Val(m.metric_class),
     test_case_type |-> Val(m.test_case_type),
     required_test_case_fields |-> OrDefault(m.required_test_case_fields, <<>>),
     required_metric_init_params |-> OrDefault(m.required_metric_init_params, <<>>),
     optional_metric_init_params |-> OrDefault(m.optional_metric_init_params, <<>>),
     threshold_semantics |-> OrDefault(m.threshold_semantics, "minimum_is_passing"),
     constraints |-> OrDefault(m.constraints, <<>>)]

\* mutant of build_metric_index: the entries before a malformed one are published
build_metric_index_partial(schema) ==
    LET bad == {k \in 1..Len(schema) :
                    IsNone(schema[k].metric_id) \/ IsNone(schema[k].metric_class)
                        \/ IsNone(schema[k].test_case_type)}
        good == IF bad = {} THEN Len(schema)
                ELSE (CHOOSE k \in bad : \A l \in bad : k <= l) - 1
    IN  Some([id \in {Val(schema[k].metric_id) : k \in 1..good} |->
                MetricDef(schema[CHOOSE k \in 1..good :
                    /\ Val(schema[k].metric_id) = id
                    /\ \A l \in (k + 1)..good : Val(schema[l].metric_id) # id])])

\* build_metric_index(schema): None where an entry lacks metric_id, metric_class or
\* test_case_type (KeyError), else Some(index); a later entry of the same id replaces
\* an earlier one.
build_metric_index(schema) ==
    IF \E k \in 1..Len(schema) :
            IsNone(schema[k].metric_id) \/ IsNone(schema[k].metric_class)
                \/ IsNone(schema[k].test_case_type)
    THEN None
    ELSE Some([id \in {Val(schema[k].metric_id) : k \in 1..Len(schema)} |->
                MetricDef(schema[CHOOSE k \in 1..Len(schema) :
                    /\ Val(schema[k].metric_id) = id
                    /\ \A l \in (k + 1)..Len(schema) : Val(schema[l].metric_id) # id])])

\* app.py: _metric_index = build_metric_index(_schema), built once at import
_metric_index == Val(build_metric_index(_schema))

\* metric_index.get(metric_id)
LookupMetricDef(metric_id) ==
    IF metric_id \in DOMAIN _metric_index THEN Some(_metric_index[metric_id]) ELSE None

-----------------------------------------------------------------------------
(* The scorer library (deepeval), as the runner uses it: classes by name,   *)
(* a constructor taking init_params as keyword arguments, measure(), and    *)
(* the score, reason and threshold attributes.  The library is not part of  *)
(* the repository; its behaviour here is a deterministic scorer whose       *)
(* outcome on a test case is decided by the test case's actual_output.      *)

\* names that getattr(deepeval.metrics, name, None) finds
DeepEvalMetrics ==
    {"AnswerRelevancyMetric", "FaithfulnessMetric", "ToxicityMetric", "TurnRelevancyMetric",
     "ArenaGEval", "ImageEditingMetric", "ImageReferenceMetric", "GEval",
     "TaskCompletionMetric", "ExactMatchMetric"}

\* keyword arguments a scorer class accepts (others raise TypeError)
ScorerAccepts(cls) ==
    IF cls = "GEval" THEN {"threshold", "model", "criteria"}
    ELSE IF cls = "ExactMatchMetric" THEN {"threshold"}
    ELSE {"threshold", "model"}

\* the threshold attribute a scorer has when none is passed
ScorerDefaultThreshold(cls) == IF cls = "ExactMatchMetric" THEN None ELSE Some(5)

R_RELEVANT == <<" ","r","e","l","e","v","a","n","t"," ">>

R_BLANK == <<" "," ">>

R_WEAK == <<"w","e","a","k">>

\* metric_obj.measure(tco): raised (the call raises; exception and msg are the type
\* and the text of what it raises), else the score and reason attributes it leaves on
\* the scorer.  "todo" is a scorer whose measure is the library's unimplemented stub
\* (a bare `raise NotImplementedError`).
ScorerMeasure(tc) ==
    LET out == tc.actual_output
        returns(score, reason) == [raised |-> FALSE, exception |-> "", msg |-> "",
                                   score |-> score, reason |-> reason]
        raises(exception, msg) == [raised |-> TRUE, exception |-> exception, msg |-> msg,
                                   score |-> None, reason |-> None]
    IN  IF out = Some("good") THEN returns(Some(9), Some(R_RELEVANT))
        ELSE IF out = Some("fair") THEN returns(Some(7), Some(R_BLANK))
        ELSE IF out = Some("poor") THEN returns(Some(3), Some(R_WEAK))
        ELSE IF out = Some("mute") THEN returns(Some(7), None)
        ELSE IF out = Some("blank") THEN returns(None, None)
        ELSE IF out = Some("todo") THEN raises("NotImplementedError", "")
        ELSE raises("ScorerError", "measure raised")

-----------------------------------------------------------------------------
(* Test cases (schemas_api.TestCaseModel, as the dict the runner receives). *)
(* An image field holds a list of n images (sized) or a JSON number n.      *)

Images(n) == Some([sized |-> TRUE, n |-> n])

Number(n) == Some([sized |-> FALSE, n |-> n])

TestCase(input, actual_output, retrieval_context, image_inputs, image_outputs) ==
    [input |-> input, actual_output |-> actual_output,
     retrieval_context |-> retrieval_context,
     image_inputs |-> image_inputs, image_outputs |-> image_outputs]

\* test_case.get(f)
Field(tc, f) == IF f \in DOMAIN tc THEN tc[f] ELSE None

-----------------------------------------------------------------------------
(* Validation helpers (runner.py). *)

\* one entry of an error list: the data its f-string renders
Violation(metric_id, kind, missing, constraint, got) ==
    [metric_id |-> metric_id, kind |-> kind, missing |-> missing,
     constraint |-> constraint, got |-> got]

\* mutant of ConstraintBranch: only a count above the declared one is a violation
ConstraintBranchAbove(metric_def, c, pattern, field, test_case) ==
    LET c_lower == Strip(Lower(c)) IN
    IF ~(Contains(pattern, c_lower) /\ Contains(<<"i","m","a","g","e">>, c_lower))
    THEN [raised |-> None, errors |-> <<>>]
    ELSE
        LET required == ParseInt(Strip(SplitFirst(SplitSecond(c_lower,
                            <<"e","x","a","c","t","l","y">>), <<"i","m","a","g","e">>)))
            given == Field(test_case, field)
            \* test_case.get(field) or []
            falsy == IsNone(given) \/ Val(given).n = 0
        IN  IF IsNone(required) THEN [raised |-> Some("ValueError"), errors |-> <<>>]
            ELSE IF ~falsy /\ ~Val(given).sized
            THEN [raised |-> Some("TypeError"), errors |-> <<>>]
            ELSE LET count == IF falsy THEN 0 ELSE Val(given).n IN
                 [raised |-> None,
                  errors |-> IF count > Val(required)
                             THEN <<Violation(metric_def.metric_id, "constraint", <<>>, c, count)>>
                             ELSE <<>>]

\* the image-count check of one constraint c against one field
\* (runner.py 27-32 for image_inputs, 33-37 for image_outputs)
ConstraintBranch(metric_def, c, pattern, field, test_case) ==
    LET c_lower == Strip(Lower(c)) IN
    IF ~(Contains(pattern, c_lower) /\ Contains(<<"i","m","a","g","e">>, c_lower))
    THEN [raised |-> None, errors |-> <<>>]
    ELSE
        LET required == ParseInt(Strip(SplitFirst(SplitSecond(c_lower,
                            <<"e","x","a","c","t","l","y">>), <<"i","m","a","g","e">>)))
            given == Field(test_case, field)
            \* test_case.get(field) or []
            falsy == IsNone(given) \/ Val(given).n = 0
        IN  IF IsNone(required) THEN [raised |-> Some("ValueError"), errors |-> <<>>]
            ELSE IF ~falsy /\ ~Val(given).sized
            THEN [raised |-> Some("TypeError"), errors |-> <<>>]
            ELSE LET count == IF falsy THEN 0 ELSE Val(given).n IN
                 [raised |-> None,
                  errors |-> IF count # Val(required)
                             THEN <<Violation(metric_def.metric_id, "constraint", <<>>, c, count)>>
                             ELSE <<>>]

RECURSIVE ApplyConstraintsFrom(_, _, _, _)
ApplyConstraintsFrom(metric_def, test_case, k, errors) ==
    IF k > Len(metric_def.constraints) THEN [raised |-> None, errors |-> errors]
    ELSE
        LET c == metric_def.constraints[k]
            inp == ConstraintBranch(metric_def, c,
                     <<"i","n","p","u","t"," ","m","u","s","t"," ","c","o","n","t","a","i","n"," ","e","x","a","c","t","l","y">>,
                     "image_inputs", test_case)
            out == ConstraintBranch(metric_def, c,
                     <<"a","c","t","u","a","l","_","o","u","t","p","u","t"," ","m","u","s","t"," ","c","o","n","t","a","i","n"," ","e","x","a","c","t","l","y">>,
                     "image_outputs", test_case)
        IN  IF ~IsNone(inp.raised) THEN [raised |-> inp.raised, errors |-> errors]
            ELSE IF ~IsNone(out.raised) THEN [raised |-> out.raised, errors |-> errors]
            ELSE ApplyConstraintsFrom(metric_def, test_case, k + 1,
                                      errors \o inp.errors \o out.errors)

\* _apply_constraints: the violations, or the exception the call raises
_apply_constraints(metric_def, test_case) ==
    ApplyConstraintsFrom(metric_def, test_case, 1, <<>>)

\* mutant of _validate_required_fields: only the first required field is looked at
_validate_required_fields_first(metric_def, test_case) ==
    LET missing == SelectSeq(Take(metric_def.required_test_case_fields, 1),
                             LAMBDA f : IsNone(Field(test_case, f)))
    IN  IF missing # <<>>
        THEN <<Violation(metric_def.metric_id, "fields", missing, <<>>, 0)>>
        ELSE <<>>

_validate_required_fields(metric_def, test_case) ==
    LET missing == SelectSeq(metric_def.required_test_case_fields,
                             LAMBDA f : IsNone(Field(test_case, f)))
    IN  IF missing # <<>>
        THEN <<Violation(metric_def.metric_id, "fields", missing, <<>>, 0)>>
        ELSE <<>>

_validate_required_init_params(metric_def, params) ==
    LET missing == SelectSeq(metric_def.required_metric_init_params,
                             LAMBDA p : IsNone(Get(params, p)))
    IN  IF missing # <<>>
        THEN <<Violation(metric_def.metric_id, "init_params", missing, <<>>, 0)>>
        ELSE <<>>

\* mutant of _pass_fail: the boundary is exclusive
_pass_fail_strict(metric_def, score, threshold) ==
    IF metric_def.threshold_semantics = "maximum_is_passing"
    THEN score.num < threshold * score.den
    ELSE score.num > threshold * score.den

\* score is a mean [num, den]; threshold is in tenths
_pass_fail(metric_def, score, threshold) ==
    IF metric_def.threshold_semantics = "maximum_is_passing"
    THEN score.num <= threshold * score.den
    ELSE score.num >= threshold * score.den

\* config.OLLAMA_MODEL wrapped in GPTModel(...)
OllamaModel == Some("deepseek-r1:1.5b")

\* mutant of _configure_ollama_model: the judge model is injected whenever the caller
\* gave none, whether or not the metric lists "model" among its optional parameters
_configure_ollama_model_always(params, metric_def) ==
    IF "model" \in params.has THEN params
    ELSE Put(params, "model", OllamaModel)

_configure_ollama_model(params, metric_def) ==
    IF "model" \in params.has THEN params
    ELSE IF \E k \in 1..Len(metric_def.optional_metric_init_params) :
                metric_def.optional_metric_init_params[k] = "model"
    THEN Put(params, "model", OllamaModel)
    ELSE params

\* mutant of MergedInitParams: one dict serves the whole run and each selection's
\* init_params are written into it, where the code copies them into a fresh dict
MergedInitParamsShared(msel, metric_def) ==
    LET copy == [has |-> init_params.has \cup msel.init_params.has,
                 val |-> [p \in ParamNames |->
                            IF p \in msel.init_params.has THEN msel.init_params.val[p]
                            ELSE init_params.val[p]]]
        merged == IF ~IsNone(msel.threshold)
                  THEN SetDefault(copy, "threshold", msel.threshold)
                  ELSE copy
    IN  _configure_ollama_model(merged, metric_def)

\* mutant of MergedInitParams: the override is assigned (init_params["threshold"] =
\* threshold_override) where the code uses setdefault
MergedInitParamsOverride(msel, metric_def) ==
    LET copy == msel.init_params
        merged == IF ~IsNone(msel.threshold)
                  THEN Put(copy, "threshold", msel.threshold)
                  ELSE copy
    IN  _configure_ollama_model(merged, metric_def)

\* runner.py 121-127: the per-selection copy of init_params, the threshold override
\* merged in, the judge model injected
MergedInitParams(msel, metric_def) ==
    LET copy == msel.init_params
        merged == IF ~IsNone(msel.threshold)
                  THEN SetDefault(copy, "threshold", msel.threshold)
                  ELSE copy
    IN  _configure_ollama_model(merged, metric_def)

\* mutant of TestCaseErrorsFrom: the loop stops at the first test case with a violation
RECURSIVE TestCaseErrorsFirstFailing(_, _, _, _)
TestCaseErrorsFirstFailing(metric_def, test_cases, k, tc_errors) ==
    IF k > Len(test_cases) \/ tc_errors # <<>> THEN [raised |-> None, errors |-> tc_errors]
    ELSE
        LET fields == _validate_required_fields(metric_def, test_cases[k])
            cons == _apply_constraints(metric_def, test_cases[k])
        IN  IF ~IsNone(cons.raised) THEN [raised |-> cons.raised, errors |-> tc_errors \o fields]
            ELSE TestCaseErrorsFirstFailing(metric_def, test_cases, k + 1,
                                            tc_errors \o fields \o cons.errors)

\* runner.py 139-142: the violations of all test cases, or the first exception
RECURSIVE TestCaseErrorsFrom(_, _, _, _)
TestCaseErrorsFrom(metric_def, test_cases, k, tc_errors) ==
    IF k > Len(test_cases) THEN [raised |-> None, errors |-> tc_errors]
    ELSE
        LET fields == _validate_required_fields(metric_def, test_cases[k])
            cons == _apply_constraints(metric_def, test_cases[k])
        IN  IF ~IsNone(cons.raised) THEN [raised |-> cons.raised, errors |-> tc_errors \o fields]
            ELSE TestCaseErrorsFrom(metric_def, test_cases, k + 1,
                                    tc_errors \o fields \o cons.errors)

-----------------------------------------------------------------------------
(* Result entries (the dicts run_evaluation appends; schemas_api.MetricResult). *)
(* A key the dict does not carry is None, as r.get() and MetricResult read it.  *)

\* an error string: the data it is rendered from.  kind "not_implemented" is str(e)
\* of a NotImplementedError, the text msg alone; every other kind starts with a fixed
\* non-empty text.
ErrorText(kind, shown, more, exception, msg) ==
    [kind |-> kind, shown |-> shown, more |-> more, exception |-> exception, msg |-> msg]

\* bool(r.get("error")): the key is present and the string is not empty
Truthy(error) ==
    /\ ~IsNone(error)
    /\ ~(Val(error).kind = "not_implemented" /\ Val(error).msg = "")

\* mutant of ErrorResult: an error entry reports a score of zero
ErrorResultScoreZero(metric_id, metric_name, error) ==
    [metric_id |-> metric_id, metric_name |-> metric_name, score |-> Some([num |-> 0, den |-> 1]),
     threshold |-> None, passed |-> None, reason |-> None,
     error |-> Some(error), cost_signal |-> None]

ErrorResult(metric_id, metric_name, error) ==
    [metric_id |-> metric_id, metric_name |-> metric_name, score |-> None,
     threshold |-> None, passed |-> None, reason |-> None,
     error |-> Some(error), cost_signal |-> None]

ScoredResult(metric_def, avg_score, threshold, passed, reason, cost_signal) ==
    [metric_id |-> metric_def.metric_id, metric_name |-> metric_def.metric_name,
     score |-> Some(avg_score), threshold |-> threshold, passed |-> passed,
     reason |-> reason, error |-> None, cost_signal |-> Some(cost_signal)]

\* mutant of Mean: the score of the first test case stands for the metric
MeanFirstOnly(scores) == [num |-> scores[1], den |-> 1]

\* sum(metric_scores) / len(metric_scores), for a non-empty list
Mean(scores) ==
    LET g == Gcd(SumSeq(scores), Len(scores))
    IN  [num |-> SumSeq(scores) \div g, den |-> Len(scores) \div g]

-----------------------------------------------------------------------------
(* One iteration of the loop of run_evaluation as a function of the selection *)
(* and the test cases: what runner.py 111-231 appends to results.             *)

\* runner.py 168-195 with the handlers of 220-231: the error the loop over the test
\* cases ends with, or the scores and reasons it collects
RECURSIVE MeasuredFrom(_, _, _, _, _)
MeasuredFrom(mdef, tcs, k, scores, reasons) ==
    LET failed(kind, exception, msg) ==
            [error |-> Some(ErrorText(kind, <<>>, FALSE, exception, msg)),
             scores |-> scores, reasons |-> reasons]
    IN  IF k > Len(tcs) THEN [error |-> None, scores |-> scores, reasons |-> reasons]
        ELSE IF mdef.test_case_type = "LLMTestCase"
        THEN LET measured == ScorerMeasure(tcs[k]) IN
             IF IsNone(tcs[k].input) THEN failed("execution_failed", "TypeError",
                                                 "missing required argument")
             ELSE IF measured.raised /\ measured.exception = "NotImplementedError"
             THEN failed("not_implemented", "", measured.msg)
             ELSE IF measured.raised THEN failed("execution_failed", measured.exception,
                                                 measured.msg)
             ELSE IF IsNone(measured.score)
             THEN failed("execution_failed", "RuntimeError",
                         "Metric returned no score (metric_obj.score is None).")
             ELSE MeasuredFrom(mdef, tcs, k + 1, Append(scores, Val(measured.score)),
                        IF ~IsNone(measured.reason) /\ Strip(Val(measured.reason)) # <<>>
                        THEN Append(reasons, Strip(Val(measured.reason)))
                        ELSE reasons)
        ELSE IF mdef.test_case_type = "ConversationalTestCase"
        THEN failed("not_implemented", "", "Conversational metrics not runnable in v1.")
        ELSE IF mdef.test_case_type = "ArenaTestCase"
        THEN failed("not_implemented", "", "Arena metrics not runnable in v1.")
        ELSE failed("execution_failed", "ValueError", "Unknown test_case_type")

\* runner.py 152-231 for a selection that passed validation
ExecutionOutcome(mdef, params, tcs) ==
    LET error(e) == ErrorResult(mdef.metric_id, mdef.metric_name, e)
        threshold == IF "threshold" \in params.has THEN params.val["threshold"]
                     ELSE ScorerDefaultThreshold(mdef.metric_class)
        measured == MeasuredFrom(mdef, tcs, 1, <<>>, <<>>)
    IN  IF mdef.metric_class \notin DeepEvalMetrics
        THEN error(ErrorText("init_failed", <<>>, FALSE, "ImportError",
                             "Cannot resolve DeepEval metric class"))
        ELSE IF ~(params.has \subseteq ScorerAccepts(mdef.metric_class))
        THEN error(ErrorText("init_failed", <<>>, FALSE, "TypeError",
                             "unexpected keyword argument"))
        ELSE IF ~IsNone(measured.error) THEN error(Val(measured.error))
        ELSE IF measured.scores = <<>>
        THEN error(ErrorText("execution_failed", <<>>, FALSE, "ZeroDivisionError",
                             "division by zero"))
        ELSE ScoredResult(mdef, Mean(measured.scores), threshold,
                 IF ~IsNone(threshold)
                 THEN Some(_pass_fail(mdef, Mean(measured.scores), Val(threshold)))
                 ELSE None,
                 IF measured.reasons # <<>> THEN Some(measured.reasons[1]) ELSE None,
                 IF "model" \in params.has THEN "llm_based" ELSE "deterministic_or_unknown")

\* runner.py 111-231: the entry appended for selection sel (result), or the exception
\* that leaves run_evaluation while sel is processed (raised)
SelectionOutcome(sel, tcs) ==
    LET found == LookupMetricDef(sel.metric_id)
        mdef == Val(found)
        params == MergedInitParams(sel, mdef)
        init_errs == _validate_required_init_params(mdef, params)
        checked == TestCaseErrorsFrom(mdef, tcs, 1, <<>>)
        returns(r) == [raised |-> None, result |-> Some(r)]
    IN  IF IsNone(found)
        THEN returns(ErrorResult(sel.metric_id, sel.metric_id,
                        ErrorText("unknown_metric", <<>>, FALSE, "",
                                  "Unknown metric_id (not found in schema).")))
        ELSE IF init_errs # <<>>
        THEN returns(ErrorResult(mdef.metric_id, mdef.metric_name,
                        ErrorText("validation", init_errs, FALSE, "", "")))
        ELSE IF ~IsNone(checked.raised)
        THEN [raised |-> checked.raised, result |-> None]
        ELSE IF checked.errors # <<>>
        THEN returns(ErrorResult(mdef.metric_id, mdef.metric_name,
                        ErrorText("validation", Take(checked.errors, 5),
                                  Len(checked.errors) > 5, "", "")))
        ELSE returns(ExecutionOutcome(mdef, params, tcs))

-----------------------------------------------------------------------------
(* The state machine. *)

msel == req.metrics[i]

metric_def == Val(LookupMetricDef(msel.metric_id))

\* mutant of NextSelection: `break` where the code has `continue`
NextSelectionBreak == "returned"

\* `continue` / the end of the loop body: the next selection, or return
NextSelection == IF i = Len(req.metrics) THEN "returned" ELSE "lookup"

\* a call into the scorer library, for selection i (and test case k, 0 when none)
Call(op, k) == [op |-> op, sel |-> i, tc |-> k]

\* an exception on its way out of the handler, and the function that raised it
Raised(type, raised_in) == [type |-> type, raised_in |-> raised_in]

\* results.append(result), then `continue` or the end of the loop body; the locals
\* of the iteration keep their values until the next iteration assigns them
Finish(result) ==
    /\ results' = Append(results, result)
    /\ i' = i + 1
    /\ pc' = NextSelection
    /\ UNCHANGED <<init_params, metric_obj, j, metric_scores, metric_reasons>>

\* mutant of Rejected: /v1/evaluate does not check for an empty selection list
RejectedFromConfigOnly ==
    /\ req.endpoint = "evaluate_from_config"
    /\ (req.metrics = <<>> \/ req.test_cases = <<>>)

\* app.py 29-35 (evaluate) and 129-139 (evaluate_from_config): the request is rejected
Rejected ==
    \/ req.metrics = <<>>
    \/ req.endpoint = "evaluate_from_config" /\ req.test_cases = <<>>

HttpResponse(status, rid, overall_status, metric_results, evidence_pointer) ==
    [status |-> status, run_id |-> rid, overall_status |-> overall_status,
     metric_results |-> metric_results, evidence_pointer |-> evidence_pointer]

\* the status the client sees for raise HTTPException(status_code=400, ...): evaluate
\* raises it outside any try (app.py 30-31); evaluate_from_config raises it inside the
\* try whose `except Exception` (app.py 190-191) answers HTTPException(500)
RejectionStatus == IF req.endpoint = "evaluate_from_config" THEN 500 ELSE 400

RejectRequest ==
    /\ pc = "received"
    /\ Rejected
    /\ response' = Some(HttpResponse(RejectionStatus, 0, "", <<>>, None))
    /\ pc' = "done"
    /\ UNCHANGED <<catalogue, startup, published, served, req, run_id, runs, i, init_params, metric_obj, j, metric_scores,
                   metric_reasons, results, evidence, exc, store, calls>>

\* mutant of FreshRunId: the run_id is derived from the content of the request
RunIdOfRequest == Len(req.metrics) + Len(req.test_cases)

\* runner.py 93: str(uuid.uuid4()), a token no earlier run has been given
FreshRunId == runs + 1

\* runner.py 93-107: a fresh run_id, empty results, the evidence accumulator
StartRun ==
    /\ pc = "received"
    /\ ~Rejected
    /\ runs' = runs + 1
    /\ run_id' = FreshRunId
    /\ results' = <<>>
    /\ evidence' = [run_id |-> FreshRunId, context |-> Some(req.context),
                    metrics |-> req.metrics, test_cases |-> req.test_cases,
                    metric_evidence |-> <<>>, gaps |-> <<>>]
    /\ i' = 1
    /\ pc' = IF req.metrics = <<>> THEN "returned" ELSE "lookup"
    /\ UNCHANGED <<catalogue, startup, published, served, req, init_params, metric_obj, j, metric_scores, metric_reasons,
                   exc, store, response, calls>>

\* mutant of LookupMetric: init_params is the selection's own dict, not a copy of it,
\* so the merge and the injection write into the submitted selection, which the
\* evidence refers to as well
LookupMetricInPlace ==
    /\ pc = "lookup"
    /\ IF IsNone(LookupMetricDef(msel.metric_id))
       THEN /\ Finish(ErrorResult(msel.metric_id, msel.metric_id,
                    ErrorText("unknown_metric", <<>>, FALSE, "",
                              "Unknown metric_id (not found in schema).")))
            /\ UNCHANGED <<req, evidence>>
       ELSE /\ init_params' = MergedInitParams(msel, metric_def)
            /\ req' = [req EXCEPT !.metrics[i].init_params = MergedInitParams(msel, metric_def)]
            /\ evidence' = [evidence EXCEPT !.metrics[i].init_params =
                                                MergedInitParams(msel, metric_def)]
            /\ pc' = "validate_init"
            /\ UNCHANGED <<i, results>>
    /\ UNCHANGED <<metric_obj, j, metric_scores, metric_reasons>>
    /\ UNCHANGED <<catalogue, startup, published, served, run_id, runs, exc, store, response, calls>>

\* runner.py 111-127
LookupMetric ==
    /\ pc = "lookup"
    /\ IF IsNone(LookupMetricDef(msel.metric_id))
       THEN Finish(ErrorResult(msel.metric_id, msel.metric_id,
                ErrorText("unknown_metric", <<>>, FALSE, "",
                          "Unknown metric_id (not found in schema).")))
       ELSE /\ init_params' = MergedInitParams(msel, metric_def)
            /\ pc' = "validate_init"
            /\ UNCHANGED <<i, results>>
    /\ UNCHANGED <<metric_obj, j, metric_scores, metric_reasons>>
    /\ UNCHANGED <<catalogue, startup, published, served, req, run_id, runs, evidence, exc, store, response, calls>>

\* runner.py 129-136
ValidateInitParams ==
    /\ pc = "validate_init"
    /\ LET init_errs == _validate_required_init_params(metric_def, init_params) IN
       IF init_errs # <<>>
       THEN Finish(ErrorResult(metric_def.metric_id, metric_def.metric_name,
                ErrorText("validation", init_errs, FALSE, "", "")))
       ELSE /\ pc' = "validate_tc"
            /\ UNCHANGED <<i, results>>
    /\ UNCHANGED <<init_params, metric_obj, j, metric_scores, metric_reasons>>
    /\ UNCHANGED <<catalogue, startup, published, served, req, run_id, runs, evidence, exc, store, response, calls>>

\* runner.py 138-150; an exception of _apply_constraints is not caught in run_evaluation
ValidateTestCases ==
    /\ pc = "validate_tc"
    /\ LET checked == TestCaseErrorsFrom(metric_def, req.test_cases, 1, <<>>) IN
       IF ~IsNone(checked.raised)
       THEN /\ exc' = Some(Raised(Val(checked.raised), "run_evaluation"))
            /\ pc' = "raised"
            /\ UNCHANGED <<i, results>>
       ELSE /\ exc' = exc
            /\ IF checked.errors # <<>>
               THEN Finish(ErrorResult(metric_def.metric_id, metric_def.metric_name,
                        ErrorText("validation", Take(checked.errors, 5),
                                  Len(checked.errors) > 5, "", "")))
               ELSE /\ pc' = "instantiate"
                    /\ UNCHANGED <<i, results>>
    /\ UNCHANGED <<init_params, metric_obj, j, metric_scores, metric_reasons>>
    /\ UNCHANGED <<catalogue, startup, published, served, req, run_id, runs, evidence, store, response, calls>>

\* runner.py 152-166, deepeval_resolver.py 4-20
Instantiate ==
    /\ pc = "instantiate"
    /\ IF metric_def.metric_class \notin DeepEvalMetrics
       THEN /\ calls' = Append(calls, Call("resolve", 0))
            /\ Finish(ErrorResult(metric_def.metric_id, metric_def.metric_name,
                    ErrorText("init_failed", <<>>, FALSE, "ImportError",
                              "Cannot resolve DeepEval metric class")))
            /\ UNCHANGED <<metric_obj, j, metric_scores, metric_reasons>>
       ELSE IF ~(init_params.has \subseteq ScorerAccepts(metric_def.metric_class))
       THEN /\ calls' = calls \o <<Call("resolve", 0), Call("construct", 0)>>
            /\ Finish(ErrorResult(metric_def.metric_id, metric_def.metric_name,
                    ErrorText("init_failed", <<>>, FALSE, "TypeError",
                              "unexpected keyword argument")))
            /\ UNCHANGED <<metric_obj, j, metric_scores, metric_reasons>>
       ELSE /\ calls' = calls \o <<Call("resolve", 0), Call("construct", 0)>>
            /\ metric_obj' = Some([class |-> metric_def.metric_class,
                                   threshold |-> IF "threshold" \in init_params.has
                                                 THEN init_params.val["threshold"]
                                                 ELSE ScorerDefaultThreshold(metric_def.metric_class)])
            /\ metric_scores' = <<>>
            /\ metric_reasons' = <<>>
            /\ j' = 1
            /\ pc' = IF req.test_cases = <<>> THEN "aggregate" ELSE "measure"
            /\ UNCHANGED <<i, results>>
    /\ UNCHANGED <<catalogue, startup, published, served, req, run_id, runs, init_params, evidence, exc, store, response>>

ExecutionFailed(exception, msg) ==
    ErrorResult(metric_def.metric_id, metric_def.metric_name,
                ErrorText("execution_failed", <<>>, FALSE, exception, msg))

\* mutant of Gap: the gap entry does not carry the metric_id
GapUnattributed(text) == [metric_id |-> "", gap |-> text]

\* runner.py 173-176 and 179-182: one entry of evidence["gaps"]
Gap(text) == [metric_id |-> metric_def.metric_id, gap |-> text]

\* mutant of ScoreIsNone: a test case without a score is left out of the mean
ScoreIsNoneSkipped ==
    /\ calls' = calls \o <<Call("adapt", j), Call("measure", j)>>
    /\ j' = j + 1
    /\ pc' = IF j = Len(req.test_cases) THEN "aggregate" ELSE "measure"
    /\ UNCHANGED <<i, results, evidence, metric_scores, metric_reasons>>

\* mutant of ScoreIsNone: a test case without a score is measured once more before
\* the metric is given up
ScoreIsNoneRetried ==
    IF \E c \in 1..Len(calls) : calls[c] = Call("measure", j)
    THEN /\ calls' = calls \o <<Call("adapt", j), Call("measure", j)>>
         /\ Finish(ExecutionFailed("RuntimeError",
                "Metric returned no score (metric_obj.score is None)."))
         /\ UNCHANGED <<evidence, j, metric_scores, metric_reasons>>
    ELSE /\ calls' = calls \o <<Call("adapt", j), Call("measure", j)>>
         /\ UNCHANGED <<pc, i, results, init_params, metric_obj, evidence, j, metric_scores,
                        metric_reasons>>

\* runner.py 188-190 with the handler of 226-231: the scorer left no score for test
\* case j
ScoreIsNone ==
    /\ calls' = calls \o <<Call("adapt", j), Call("measure", j)>>
    /\ Finish(ExecutionFailed("RuntimeError",
            "Metric returned no score (metric_obj.score is None)."))
    /\ UNCHANGED <<evidence, j, metric_scores, metric_reasons>>

\* runner.py 169-195, for test case j, with the handlers of 220-231
MeasureTestCase ==
    /\ pc = "measure"
    /\ LET tc == req.test_cases[j]
           measured == ScorerMeasure(tc)
       IN
       IF metric_def.test_case_type = "LLMTestCase"
       THEN \* to_llm_test_case: LLMTestCase(**payload) needs an input
            IF IsNone(tc.input)
            THEN /\ calls' = Append(calls, Call("adapt", j))
                 /\ Finish(ExecutionFailed("TypeError", "missing required argument"))
                 /\ UNCHANGED <<evidence, j, metric_scores, metric_reasons>>
            ELSE IF measured.raised /\ measured.exception = "NotImplementedError"
            THEN \* caught by `except NotImplementedError` (220-225): error is str(e)
                 /\ calls' = calls \o <<Call("adapt", j), Call("measure", j)>>
                 /\ Finish(ErrorResult(metric_def.metric_id, metric_def.metric_name,
                        ErrorText("not_implemented", <<>>, FALSE, "", measured.msg)))
                 /\ UNCHANGED <<evidence, j, metric_scores, metric_reasons>>
            ELSE IF measured.raised
            THEN /\ calls' = calls \o <<Call("adapt", j), Call("measure", j)>>
                 /\ Finish(ExecutionFailed(measured.exception, measured.msg))
                 /\ UNCHANGED <<evidence, j, metric_scores, metric_reasons>>
            ELSE IF IsNone(measured.score)
            THEN ScoreIsNone
            ELSE /\ calls' = calls \o <<Call("adapt", j), Call("measure", j)>>
                 /\ metric_scores' = Append(metric_scores, Val(measured.score))
                 /\ metric_reasons' =
                        IF ~IsNone(measured.reason) /\ Strip(Val(measured.reason)) # <<>>
                        THEN Append(metric_reasons, Strip(Val(measured.reason)))
                        ELSE metric_reasons
                 /\ j' = j + 1
                 /\ pc' = IF j = Len(req.test_cases) THEN "aggregate" ELSE "measure"
                 /\ UNCHANGED <<i, results, evidence>>
       ELSE IF metric_def.test_case_type = "ConversationalTestCase"
       THEN /\ evidence' = [evidence EXCEPT !.gaps = Append(@,
                    Gap("ConversationalTestCase execution not implemented in v1."))]
            /\ Finish(ErrorResult(metric_def.metric_id, metric_def.metric_name,
                    ErrorText("not_implemented", <<>>, FALSE, "",
                              "Conversational metrics not runnable in v1.")))
            /\ UNCHANGED <<calls, j, metric_scores, metric_reasons>>
       ELSE IF metric_def.test_case_type = "ArenaTestCase"
       THEN /\ evidence' = [evidence EXCEPT !.gaps = Append(@,
                    Gap("ArenaTestCase execution not implemented in v1."))]
            /\ Finish(ErrorResult(metric_def.metric_id, metric_def.metric_name,
                    ErrorText("not_implemented", <<>>, FALSE, "",
                              "Arena metrics not runnable in v1.")))
            /\ UNCHANGED <<calls, j, metric_scores, metric_reasons>>
       ELSE /\ Finish(ExecutionFailed("ValueError", "Unknown test_case_type"))
            /\ UNCHANGED <<evidence, calls, j, metric_scores, metric_reasons>>
    /\ UNCHANGED <<catalogue, startup, published, served, req, run_id, runs, init_params, metric_obj, exc, store, response>>

\* mutant of Aggregate: the mean of no scores is taken to be zero
AggregateNoScoresAsZero ==
    /\ pc = "aggregate"
    /\ LET avg_score == IF metric_scores = <<>> THEN [num |-> 0, den |-> 1]
                        ELSE Mean(metric_scores)
           threshold == Val(metric_obj).threshold
           passed == IF ~IsNone(threshold)
                     THEN Some(_pass_fail(metric_def, avg_score, Val(threshold)))
                     ELSE None
       IN  /\ Finish(ScoredResult(metric_def, avg_score, threshold, passed,
                   IF metric_reasons # <<>> THEN Some(metric_reasons[1]) ELSE None,
                   IF "model" \in init_params.has THEN "llm_based"
                   ELSE "deterministic_or_unknown"))
           /\ evidence' = [evidence EXCEPT !.metric_evidence = Append(@,
                   [metric_id |-> metric_def.metric_id,
                    metric_class |-> metric_def.metric_class,
                    scores |-> metric_scores,
                    reasons |-> Take(metric_reasons, 3)])]
    /\ UNCHANGED <<catalogue, startup, published, served, req, run_id, runs, init_params, metric_obj, j, metric_scores,
                   metric_reasons, exc, store, response, calls>>

\* runner.py 197-218, with the handler of 226-231 for the division by zero
Aggregate ==
    /\ pc = "aggregate"
    /\ IF metric_scores = <<>>
       THEN /\ Finish(ExecutionFailed("ZeroDivisionError", "division by zero"))
            /\ UNCHANGED evidence
       ELSE LET avg_score == Mean(metric_scores)
                threshold == Val(metric_obj).threshold
                passed == IF ~IsNone(threshold)
                          THEN Some(_pass_fail(metric_def, avg_score, Val(threshold)))
                          ELSE None
            IN  /\ Finish(ScoredResult(metric_def, avg_score, threshold, passed,
                        IF metric_reasons # <<>> THEN Some(metric_reasons[1]) ELSE None,
                        IF "model" \in init_params.has THEN "llm_based"
                        ELSE "deterministic_or_unknown"))
                /\ evidence' = [evidence EXCEPT !.metric_evidence = Append(@,
                        [metric_id |-> metric_def.metric_id,
                         metric_class |-> metric_def.metric_class,
                         scores |-> metric_scores,
                         reasons |-> Take(metric_reasons, 3)])]
    /\ UNCHANGED <<catalogue, startup, published, served, req, run_id, runs, init_params, metric_obj, j, metric_scores,
                   metric_reasons, exc, store, response, calls>>

\* mutant of write_evidence: the document is written without the list of gaps
write_evidence_without_gaps(step, rid, document) ==
    IF step = "mkdir" THEN store
    ELSE (rid :> [file |-> IF step = "open" THEN "absent"
                           ELSE IF step = "dump" THEN "partial" ELSE "complete",
                  document |-> IF step = "none"
                               THEN Some([document EXCEPT !.gaps = <<>>])
                               ELSE None]) @@ store

\* evidence_store.py 6-12.  step names the call that raises: "mkdir", "open" (the
\* directory exists, no file), "dump" (json.dump fails part-way: the file opened for
\* writing holds a truncated document), or "none".
write_evidence(step, rid, document) ==
    IF step = "mkdir" THEN store
    ELSE (rid :> [file |-> IF step = "open" THEN "absent"
                           ELSE IF step = "dump" THEN "partial" ELSE "complete",
                  document |-> IF step = "none" THEN Some(document) ELSE None]) @@ store

\* app.py 46 and 165
WriteEvidence ==
    /\ pc = "returned"
    /\ \E step \in {"none", "mkdir", "open", "dump"} :
        /\ store' = write_evidence(step, run_id, evidence)
        /\ IF step = "none"
           THEN pc' = "written" /\ exc' = exc
           ELSE pc' = "raised" /\ exc' = Some(Raised("OSError", "write_evidence"))
    /\ calls' = Append(calls, [op |-> "write_evidence", sel |-> 0, tc |-> 0])
    /\ UNCHANGED <<catalogue, startup, published, served, req, run_id, runs, i, init_params, metric_obj, j, metric_scores,
                   metric_reasons, results, evidence, response>>

\* mutant of OverallStatus: a scored metric without a verdict counts as failed
\* (any(not r.get("passed") ...) where the code tests `is False`)
OverallStatusUnknownFails(raw_results) ==
    LET any_fail == \E k \in 1..Len(raw_results) :
                        /\ IsNone(raw_results[k].error)
                        /\ raw_results[k].passed # Some(TRUE)
        any_error == \E k \in 1..Len(raw_results) : Truthy(raw_results[k].error)
    IN  IF any_fail THEN "FAIL" ELSE IF any_error THEN "WARNING" ELSE "PASS"

\* mutant of OverallStatus: an error is looked at before a failed metric
OverallStatusErrorFirst(raw_results) ==
    LET any_fail == \E k \in 1..Len(raw_results) : raw_results[k].passed = Some(FALSE)
        any_error == \E k \in 1..Len(raw_results) : ~IsNone(raw_results[k].error)
    IN  IF any_error THEN "WARNING" ELSE IF any_fail THEN "FAIL" ELSE "PASS"

\* app.py 48-56
OverallStatus(raw_results) ==
    LET any_fail == \E k \in 1..Len(raw_results) :
                        /\ ~IsNone(raw_results[k].passed)
                        /\ Val(raw_results[k].passed) = FALSE
        any_error == \E k \in 1..Len(raw_results) : Truthy(raw_results[k].error)
    IN  IF any_fail THEN "FAIL" ELSE IF any_error THEN "WARNING" ELSE "PASS"

\* app.py 48-65 and 167-184
Respond ==
    /\ pc = "written"
    /\ response' = Some(HttpResponse(200, run_id, OverallStatus(results), results,
                                     Some(run_id)))
    /\ pc' = "done"
    /\ UNCHANGED <<catalogue, startup, published, served, req, run_id, runs, i, init_params, metric_obj, j, metric_scores,
                   metric_reasons, results, evidence, exc, store, calls>>

\* an exception leaves the handler: FastAPI answers 500 (evaluate); app.py 190-191
\* turns it into HTTPException(500) (evaluate_from_config)
RequestFails ==
    /\ pc = "raised"
    /\ response' = Some(HttpResponse(500, 0, "", <<>>, None))
    /\ pc' = "done"
    /\ UNCHANGED <<catalogue, startup, published, served, req, run_id, runs, i, init_params, metric_obj, j, metric_scores,
                   metric_reasons, results, evidence, exc, store, calls>>

Next ==
    \/ RejectRequest
    \/ StartRun
    \/ LookupMetric
    \/ ValidateInitParams
    \/ ValidateTestCases
    \/ Instantiate
    \/ MeasureTestCase
    \/ Aggregate
    \/ WriteEvidence
    \/ Respond
    \/ RequestFails

-----------------------------------------------------------------------------
(* Requests. *)

Selection(metric_id, threshold, params) ==
    [metric_id |-> metric_id, threshold |-> threshold, init_params |-> params]

SeqsUpTo(S, n) == UNION {[1..k -> S] : k \in 0..n}

\* ContextModel (schemas_api.py): the request's context, with evaluation_object and
\* use_case
Context(evaluation_object, use_case, deployment_stage, risk_class) ==
    [evaluation_object |-> evaluation_object, use_case |-> use_case,
     deployment_stage |-> deployment_stage, risk_class |-> risk_class]

CONTEXT_PROD == Context("chatbot", "support", "prod", "high")

CONTEXT_DEV == Context("chatbot", "search", "dev", "low")

\* the state when a request out of requests has arrived and its handler has not
\* started
InitRequests(requests) ==
    /\ catalogue = _schema
    /\ startup = "serving"
    /\ published = build_metric_index(_schema)
    /\ req \in requests
    /\ pc = "received"
    /\ run_id = 0
    /\ runs = 0
    /\ i = 0
    /\ init_params = EmptyDict
    /\ metric_obj = None
    /\ j = 0
    /\ metric_scores = <<>>
    /\ metric_reasons = <<>>
    /\ results = <<>>
    /\ evidence = [run_id |-> 0, context |-> None, metrics |-> <<>>, test_cases |-> <<>>,
                   metric_evidence |-> <<>>, gaps |-> <<>>]
    /\ exc = None
    /\ store = <<>>
    /\ response = None
    /\ calls = <<>>
    /\ served = <<>>

\* requests of up to MaxMetrics selections and MaxTestCases test cases
InitOn(endpoints, selections, test_cases) ==
    InitRequests([endpoint : endpoints,
                  context : {CONTEXT_PROD},
                  metrics : SeqsUpTo(selections, MaxMetrics),
                  test_cases : SeqsUpTo(test_cases, MaxTestCases)])

TC_FULL == TestCase(Some("q"), Some("good"), Some("doc"), Images(1), Images(2))

TC_NO_CONTEXT == TestCase(Some("q"), Some("poor"), None, None, None)

TC_NO_SCORE == TestCase(Some("q"), Some("blank"), Some("doc"), Images(1), Images(2))

TC_NO_INPUT == TestCase(None, Some("fair"), Some("doc"), Images(0), Images(1))

SEL_RELEVANCY == Selection("rag.answer_relevancy", Some(6), EmptyDict)

SEL_FAITHFULNESS == Selection("rag.faithfulness", None, EmptyDict)

SEL_TOXICITY == Selection("safety.toxicity", Some(6), EmptyDict)

SEL_CONVERSATIONAL == Selection("multiturn.turn_relevancy", None, EmptyDict)

SEL_ARENA == Selection("arena.arena_g_eval", None, EmptyDict)

SEL_G_EVAL == Selection("custom.g_eval", None, EmptyDict)

SEL_SUMMARIZATION == Selection("others.summarization", None, EmptyDict)

SEL_TASK == Selection("agent.task_completion", None, EmptyDict)

SEL_EXACT == Selection("non_llm.exact_match", None, EmptyDict)

SEL_UNKNOWN == Selection("rag.no_such_metric", Some(7), EmptyDict)

SEL_IMAGE_REFERENCE == Selection("multimodal.image_reference", None, EmptyDict)

Init ==
    InitOn({"evaluate"},
           {SEL_RELEVANCY, SEL_FAITHFULNESS, SEL_TOXICITY, SEL_CONVERSATIONAL, SEL_ARENA,
            SEL_G_EVAL, SEL_SUMMARIZATION, SEL_TASK, SEL_EXACT, SEL_UNKNOWN,
            SEL_IMAGE_REFERENCE},
           {TC_FULL, TC_NO_CONTEXT, TC_NO_SCORE, TC_NO_INPUT})

Spec == Init /\ [][Next]_vars

\* The client submits the identical request again once the previous submission is
\* answered: a new call of the handler, with fresh locals; the artifact directory and
\* the run_ids already handed out stay.
Resubmit ==
    /\ pc = "done"
    /\ Len(served) < MaxRequests - 1
    /\ served' = Append(served, Val(response))
    /\ pc' = "received"
    /\ run_id' = 0
    /\ i' = 0
    /\ init_params' = EmptyDict
    /\ metric_obj' = None
    /\ j' = 0
    /\ metric_scores' = <<>>
    /\ metric_reasons' = <<>>
    /\ results' = <<>>
    /\ evidence' = [run_id |-> 0, context |-> None, metrics |-> <<>>, test_cases |-> <<>>,
                    metric_evidence |-> <<>>, gaps |-> <<>>]
    /\ exc' = None
    /\ response' = None
    /\ calls' = <<>>
    /\ UNCHANGED <<catalogue, startup, published, req, runs, store>>

NextRerun ==
    \/ Next
    \/ Resubmit

InitRerun ==
    InitOn({"evaluate"},
           {SEL_RELEVANCY, SEL_TOXICITY, SEL_FAITHFULNESS, SEL_CONVERSATIONAL, SEL_UNKNOWN,
            SEL_IMAGE_REFERENCE},
           {TC_FULL, TC_NO_CONTEXT, TC_NO_SCORE})

SpecRerun == InitRerun /\ [][NextRerun]_vars

\* The import of app.py (lines 21-22) on a catalogue of up to MaxEntries metric
\* entries: well-formed ones (two of them with the same metric_id), one with the
\* three mandatory keys only, and one lacking each mandatory key.

ENTRY_MINIMAL ==
    [metric_id |-> Some("min.metric"), metric_name |-> None, metric_class |-> Some("GEval"),
     test_case_type |-> Some("LLMTestCase"), required_test_case_fields |-> None,
     required_metric_init_params |-> None, optional_metric_init_params |-> None,
     threshold_semantics |-> None, constraints |-> None]

ENTRY_SAME_ID == [_schema[1] EXCEPT !.metric_class = Some("FaithfulnessMetric")]

ENTRY_NO_ID == [_schema[2] EXCEPT !.metric_id = None]

ENTRY_NO_CLASS == [_schema[3] EXCEPT !.metric_class = None]

ENTRY_NO_KIND == [_schema[4] EXCEPT !.test_case_type = None]

InitStartup ==
    /\ catalogue \in SeqsUpTo({_schema[1], _schema[2], ENTRY_MINIMAL, ENTRY_SAME_ID,
                             ENTRY_NO_ID, ENTRY_NO_CLASS, ENTRY_NO_KIND}, MaxEntries)
    /\ startup = "importing"
    /\ published = None
    /\ req = [endpoint |-> "evaluate", context |-> CONTEXT_PROD, metrics |-> <<>>,
              test_cases |-> <<>>]
    /\ pc = "received"
    /\ run_id = 0
    /\ runs = 0
    /\ i = 0
    /\ init_params = EmptyDict
    /\ metric_obj = None
    /\ j = 0
    /\ metric_scores = <<>>
    /\ metric_reasons = <<>>
    /\ results = <<>>
    /\ evidence = [run_id |-> 0, context |-> None, metrics |-> <<>>, test_cases |-> <<>>,
                   metric_evidence |-> <<>>, gaps |-> <<>>]
    /\ exc = None
    /\ store = <<>>
    /\ response = None
    /\ calls = <<>>
    /\ served = <<>>

\* app.py 22: _metric_index = build_metric_index(_schema); a KeyError ends the import
BuildIndex ==
    /\ startup = "importing"
    /\ published' = build_metric_index(catalogue)
    /\ startup' = IF IsNone(build_metric_index(catalogue)) THEN "failed" ELSE "serving"
    /\ UNCHANGED <<catalogue, req, pc, run_id, runs, i, init_params, metric_obj, j,
                   metric_scores, metric_reasons, results, evidence, exc, store,
                   response, calls, served>>

NextStartup == BuildIndex

SpecStartup == InitStartup /\ [][NextStartup]_vars

\* Requests to both endpoints.  extract_test_cases_from_config (config_parser.py
\* 93-174) gives every metric config the threshold 0.7 and empty init_params, lists no
\* metric_id twice, and gives every test case the keys input and actual_output.

SEL_RELEVANCY_CONFIG == Selection("rag.answer_relevancy", Some(7), EmptyDict)

SEL_FAITHFULNESS_CONFIG == Selection("rag.faithfulness", Some(7), EmptyDict)

SEL_CONVERSATIONAL_CONFIG == Selection("multiturn.turn_relevancy", Some(7), EmptyDict)

SEL_IMAGE_REFERENCE_CONFIG == Selection("multimodal.image_reference", Some(7), EmptyDict)

TC_CONTEXT == TestCase(Some("q"), Some("good"), Some("doc"), None, None)

TC_CONTEXT_NO_SCORE == TestCase(Some("q"), Some("blank"), Some("doc"), None, None)

InitEndpoints ==
    /\ InitOn({"evaluate", "evaluate_from_config"},
              {SEL_RELEVANCY_CONFIG, SEL_FAITHFULNESS_CONFIG, SEL_CONVERSATIONAL_CONFIG,
               SEL_IMAGE_REFERENCE_CONFIG},
              {TC_CONTEXT, TC_NO_CONTEXT, TC_CONTEXT_NO_SCORE})
    /\ req.endpoint = "evaluate_from_config" =>
            \A k, l \in 1..Len(req.metrics) :
                req.metrics[k].metric_id = req.metrics[l].metric_id => k = l

SpecEndpoints == InitEndpoints /\ [][Next]_vars

\* Requests that vary the threshold override and the init_params of a selection.

Params1(p, v) == Put(EmptyDict, p, v)

Params2(p, v, q, w) == Put(Put(EmptyDict, p, v), q, w)

SEL_RELEVANCY_DEFAULT == Selection("rag.answer_relevancy", None, EmptyDict)

SEL_RELEVANCY_BOTH == Selection("rag.answer_relevancy", Some(7), Params1("threshold", Some(9)))

SEL_RELEVANCY_MODEL == Selection("rag.answer_relevancy", Some(7), Params1("model", Some("gpt-4")))

SEL_G_EVAL_OVERRIDE == Selection("custom.g_eval", Some(7), EmptyDict)

SEL_G_EVAL_CRITERIA == Selection("custom.g_eval", None, Params1("criteria", Some("helpful")))

SEL_G_EVAL_FULL == Selection("custom.g_eval", Some(7), Params1("criteria", Some("helpful")))

SEL_G_EVAL_PARAM == Selection("custom.g_eval", None,
                              Params2("criteria", Some("helpful"), "threshold", Some(5)))

SEL_G_EVAL_NULL_THRESHOLD == Selection("custom.g_eval", Some(7),
                                Params2("criteria", Some("helpful"), "threshold", None))

SEL_G_EVAL_NULL_MODEL == Selection("custom.g_eval", Some(7),
                                Params2("criteria", Some("helpful"), "model", None))

SEL_EXACT_MODEL == Selection("non_llm.exact_match", None, Params1("model", Some("gpt-4")))

SEL_CONVERSATIONAL_CRITERIA ==
    Selection("multiturn.turn_relevancy", None, Params1("criteria", Some("helpful")))

InitParams ==
    InitOn({"evaluate"},
           {SEL_RELEVANCY_DEFAULT, SEL_RELEVANCY_BOTH, SEL_RELEVANCY_MODEL, SEL_G_EVAL,
            SEL_G_EVAL_OVERRIDE, SEL_G_EVAL_CRITERIA, SEL_G_EVAL_FULL, SEL_G_EVAL_PARAM,
            SEL_G_EVAL_NULL_THRESHOLD, SEL_G_EVAL_NULL_MODEL, SEL_EXACT_MODEL,
            SEL_UNKNOWN, SEL_CONVERSATIONAL, SEL_CONVERSATIONAL_CRITERIA, SEL_ARENA,
            SEL_IMAGE_REFERENCE},
           {TC_FULL, TC_NO_CONTEXT, TC_NO_SCORE})

SpecParams == InitParams /\ [][Next]_vars

\* Requests whose test cases vary the image fields: lists of 0 to 3 images, absent
\* fields, and JSON numbers (TestCaseModel types the image fields Optional[Any]).

SEL_IMAGE_EDITING == Selection("multimodal.image_editing", None, EmptyDict)

TC_IMAGES_2_2 == TestCase(Some("q"), Some("good"), None, Images(2), Images(2))

TC_IMAGES_1_3 == TestCase(Some("q"), Some("fair"), None, Images(1), Images(3))

TC_IMAGES_1_NONE == TestCase(Some("q"), Some("good"), None, Images(1), None)

TC_NUMBER_0_2 == TestCase(Some("q"), Some("good"), None, Number(0), Images(2))

TC_NUMBER_7_2 == TestCase(Some("q"), Some("good"), None, Number(7), Images(2))

TC_IMAGES_1_NUMBER_7 == TestCase(Some("q"), Some("good"), None, Images(1), Number(7))

InitImages ==
    InitOn({"evaluate"},
           {SEL_IMAGE_EDITING, SEL_IMAGE_REFERENCE, SEL_RELEVANCY, SEL_UNKNOWN},
           {TC_FULL, TC_NO_INPUT, TC_NO_CONTEXT, TC_IMAGES_2_2, TC_IMAGES_1_3,
            TC_IMAGES_1_NONE, TC_NUMBER_0_2, TC_NUMBER_7_2, TC_IMAGES_1_NUMBER_7})

SpecImages == InitImages /\ [][Next]_vars

\* Requests that meet every failure of the execution steps: a scorer class the library
\* does not have, a constructor that rejects a keyword, a test case that does not
\* adapt, a measure that raises, a missing score, an unknown test-case kind.

TC_CRASH == TestCase(Some("q"), Some("crash"), Some("doc"), None, None)

TC_TODO == TestCase(Some("q"), Some("todo"), Some("doc"), None, None)

InitScorer ==
    InitOn({"evaluate"},
           {SEL_RELEVANCY, SEL_SUMMARIZATION, SEL_EXACT_MODEL, SEL_TASK, SEL_EXACT,
            SEL_CONVERSATIONAL, SEL_IMAGE_REFERENCE},
           {TC_FULL, TC_NO_INPUT, TC_NO_SCORE, TC_CRASH, TC_TODO})

SpecScorer == InitScorer /\ [][Next]_vars

\* Requests of up to MaxScored test cases that every single-turn scorer can score,
\* with scores on both sides of the thresholds and reasons that are text, blank or
\* absent.

TC_FAIR == TestCase(Some("q"), Some("fair"), Some("doc"), None, None)

TC_MUTE == TestCase(Some("q"), Some("mute"), Some("doc"), None, None)

InitScores ==
    InitRequests([endpoint : {"evaluate"},
                  context : {CONTEXT_PROD},
                  metrics : SeqsUpTo({SEL_RELEVANCY, SEL_TOXICITY, SEL_EXACT,
                                      SEL_RELEVANCY_CONFIG}, MaxMetrics),
                  test_cases : SeqsUpTo({TC_FULL, TC_NO_CONTEXT, TC_FAIR, TC_MUTE},
                                        MaxScored)])

SpecScores == InitScores /\ [][Next]_vars

\* Requests with one of two contexts, whose selections end scored, failed, unknown or
\* as a gap.

InitEvidence ==
    InitRequests([endpoint : {"evaluate"},
                  context : {CONTEXT_PROD, CONTEXT_DEV},
                  metrics : SeqsUpTo({SEL_RELEVANCY, SEL_EXACT, SEL_CONVERSATIONAL, SEL_ARENA,
                                      SEL_UNKNOWN, SEL_G_EVAL}, MaxMetrics),
                  test_cases : SeqsUpTo({TC_FULL, TC_NO_CONTEXT, TC_NO_SCORE}, MaxTestCases)])

SpecEvidence == InitEvidence /\ [][Next]_vars

-----------------------------------------------------------------------------
(* Vocabulary of the properties. *)

Known(sel) == sel.metric_id \in DOMAIN _metric_index

DefOf(sel) == _metric_index[sel.metric_id]

InLoop == pc \in {"lookup", "validate_init", "validate_tc", "instantiate", "measure", "aggregate"}

\* an exception has left run_evaluation
RunEvaluationRaised == ~IsNone(exc) /\ Val(exc).raised_in = "run_evaluation"

\* the handler has answered 200 with a response body
Answered == ~IsNone(response) /\ Val(response).status = 200

HasError(r) == ~IsNone(r.error)

HasScore(r) == ~IsNone(r.score)

-----------------------------------------------------------------------------
\* C1: run_evaluation returns normally for every request, and the list it returns
\* holds exactly one entry per submitted metric selection, in submission order.
C1_OneResultPerSelection ==
    /\ ~RunEvaluationRaised
    /\ pc = "returned" =>
        /\ Len(results) = Len(req.metrics)
        /\ \A k \in 1..Len(results) : results[k].metric_id = req.metrics[k].metric_id

C3_UnknownMetricState ==
    /\ InLoop => Len(results) = i - 1
    /\ \A k \in 1..Len(results) :
        ~Known(req.metrics[k]) =>
            /\ results[k].metric_id = req.metrics[k].metric_id
            /\ HasError(results[k])
            /\ Val(results[k].error).kind = "unknown_metric"
            /\ ~HasScore(results[k])

C3_UnknownMetricStep ==
    (pc = "lookup" /\ ~Known(req.metrics[i])) =>
        /\ Len(results') = Len(results) + 1
        /\ SubSeq(results', 1, Len(results)) = results
        /\ i' = i + 1
        /\ pc' = IF i < Len(req.metrics) THEN "lookup" ELSE "returned"

C3_UnknownMetric == []C3_UnknownMetricState /\ [][C3_UnknownMetricStep]_vars

\* an unknown selection has its error entry and a later selection has been scored
C3_Witness ==
    \E k \in 1..Len(results) :
        /\ ~Known(req.metrics[k])
        /\ HasError(results[k])
        /\ \E l \in (k + 1)..Len(results) : HasScore(results[l])

\* C4: pass/fail polarity follows threshold_semantics with an inclusive boundary:
\* minimum_is_passing passes iff score >= threshold, maximum_is_passing passes iff
\* score <= threshold, and a score equal to the threshold passes under both.
C4_PassFailPolarity ==
    \A k \in 1..Len(results) :
        (HasScore(results[k]) /\ ~IsNone(results[k].threshold)) =>
            LET score == Val(results[k].score)
                threshold == Val(results[k].threshold)
                sem == DefOf(req.metrics[k]).threshold_semantics
            IN  /\ results[k].passed \in {Some(TRUE), Some(FALSE)}
                /\ sem = "minimum_is_passing" =>
                    (results[k].passed = Some(TRUE) <=> score.num >= threshold * score.den)
                /\ sem = "maximum_is_passing" =>
                    (results[k].passed = Some(TRUE) <=> score.num <= threshold * score.den)
                /\ score.num = threshold * score.den => results[k].passed = Some(TRUE)

\* one run in which a minimum_is_passing metric and a maximum_is_passing metric both
\* score exactly their threshold and pass
C4_Witness ==
    \E k, l \in 1..Len(results) :
        /\ HasScore(results[k]) /\ HasScore(results[l])
        /\ ~IsNone(results[k].threshold) /\ ~IsNone(results[l].threshold)
        /\ DefOf(req.metrics[k]).threshold_semantics = "minimum_is_passing"
        /\ DefOf(req.metrics[l]).threshold_semantics = "maximum_is_passing"
        /\ Val(results[k].score).num = Val(results[k].threshold) * Val(results[k].score).den
        /\ Val(results[l].score).num = Val(results[l].threshold) * Val(results[l].score).den
        /\ results[k].passed = Some(TRUE)
        /\ results[l].passed = Some(TRUE)

\* C5: a request with an empty metric selection list is rejected before execution:
\* run_evaluation is not invoked, no run_id is produced, no evidence is written.
C5_EmptySelectionRejected ==
    req.metrics = <<>> =>
        /\ pc \in {"received", "done"}
        /\ pc = "done" => (~IsNone(response) /\ Val(response).status = 400)
        /\ run_id = 0
        /\ runs = 0
        /\ results = <<>>
        /\ evidence.run_id = 0
        /\ calls = <<>>
        /\ store = <<>>

\* the empty request has been answered 400
C5_Witness ==
    /\ req.metrics = <<>>
    /\ pc = "done"
    /\ ~IsNone(response)
    /\ Val(response).status = 400
    /\ Val(response).run_id = 0

\* the value a required init parameter has after the threshold merge and the model
\* injection: the selection's own entry when init_params carries the key (a null
\* included), else the threshold override, else the injected judge model
EffectiveValue(sel, p) ==
    IF p \in sel.init_params.has THEN sel.init_params.val[p]
    ELSE IF p = "threshold" THEN sel.threshold
    ELSE IF p = "model"
            /\ \E k \in 1..Len(DefOf(sel).optional_metric_init_params) :
                    DefOf(sel).optional_metric_init_params[k] = "model"
    THEN OllamaModel
    ELSE None

\* the required init parameters of the selection's metric that have no non-null value
MissingParams(sel) ==
    SelectSeq(DefOf(sel).required_metric_init_params,
              LAMBDA p : IsNone(EffectiveValue(sel, p)))

\* C6: a selection that lacks a non-null value for a required init parameter (after
\* threshold merge and model injection) gets an entry with error set, naming every
\* missing parameter, and no score; and every selection's entry is what that selection
\* yields on its own with the request's test cases, whatever else the request selects.
C6_MissingInitParam ==
    \A k \in 1..Len(results) :
        LET sel == req.metrics[k] IN
        /\ (Known(sel) /\ MissingParams(sel) # <<>>) =>
                /\ HasError(results[k])
                /\ ~HasScore(results[k])
                /\ results[k].passed = None
                /\ Val(results[k].error).kind = "validation"
                /\ Val(results[k].error).shown =
                        <<Violation(sel.metric_id, "init_params", MissingParams(sel), <<>>, 0)>>
        /\ SelectionOutcome(sel, req.test_cases).result = Some(results[k])

\* a selection missing two required parameters has its error entry naming both, and
\* the selection after it, which carries a model of its own, is scored
C6_Witness ==
    /\ Len(results) = 2
    /\ req.metrics[1] = SEL_G_EVAL
    /\ req.metrics[2] = SEL_RELEVANCY_MODEL
    /\ MissingParams(req.metrics[1]) = <<"criteria", "threshold">>
    /\ HasError(results[1])
    /\ Val(results[1].error).shown[1].missing = <<"criteria", "threshold">>
    /\ HasScore(results[2])

\* some test case lacks (absent or null) a field the selection's metric requires
LacksRequiredField(sel, tcs) ==
    \E k \in 1..Len(tcs) :
        \E n \in 1..Len(DefOf(sel).required_test_case_fields) :
            IsNone(Field(tcs[k], DefOf(sel).required_test_case_fields[n]))

\* the selection's requirements are met: no required init parameter is missing, and
\* every test case has the required fields and satisfies the constraints
RequirementsMet(sel, tcs) ==
    /\ MissingParams(sel) = <<>>
    /\ ~LacksRequiredField(sel, tcs)
    /\ \A k \in 1..Len(tcs) :
            /\ IsNone(_apply_constraints(DefOf(sel), tcs[k]).raised)
            /\ _apply_constraints(DefOf(sel), tcs[k]).errors = <<>>

\* the scorer class of the selection's metric is found in the library and accepts
\* the selection's init parameters
Instantiates(sel) ==
    /\ DefOf(sel).metric_class \in DeepEvalMetrics
    /\ MergedInitParams(sel, DefOf(sel)).has \subseteq ScorerAccepts(DefOf(sel).metric_class)

\* the metric is of the single-turn kind, every test case adapts, and the scorer
\* returns a score for every test case
ScorerSucceeds(sel, tcs) ==
    /\ DefOf(sel).test_case_type = "LLMTestCase"
    /\ tcs # <<>>
    /\ \A k \in 1..Len(tcs) :
            /\ ~IsNone(tcs[k].input)
            /\ ~ScorerMeasure(tcs[k]).raised
            /\ ~IsNone(ScorerMeasure(tcs[k]).score)

\* the case of C7 in an answered request: two selections, the first one's metric
\* requires a field some test case lacks, the second one's requirements are met
C7_Case ==
    /\ Answered
    /\ Len(req.metrics) = 2
    /\ Known(req.metrics[1])
    /\ Known(req.metrics[2])
    /\ LacksRequiredField(req.metrics[1], req.test_cases)
    /\ RequirementsMet(req.metrics[2], req.test_cases)

\* C7 as stated: in a request with two metrics where some test case lacks a field
\* required by the first metric and the second metric's requirements are met by every
\* test case, the first entry has error set and no score, the second entry has score
\* and passed set, and overall_status is WARNING when the second metric does not fail.
C7_AsStated ==
    C7_Case =>
        /\ HasError(results[1])
        /\ ~HasScore(results[1])
        /\ HasScore(results[2])
        /\ ~IsNone(results[2].passed)
        /\ results[2].passed # Some(FALSE) => Val(response).overall_status = "WARNING"

\* C7 (amended): when in addition the second metric's scorer is resolved and constructed
\* and returns a score for every test case, the first entry has error set and no
\* score, the second entry has score set, and passed set iff its scorer has a
\* threshold; overall_status is WARNING when the second metric's passed is not false
\* and FAIL when it is.
C7_FirstFailsSecondScored ==
    ( /\ C7_Case
      /\ Instantiates(req.metrics[2])
      /\ ScorerSucceeds(req.metrics[2], req.test_cases) ) =>
        /\ HasError(results[1])
        /\ ~HasScore(results[1])
        /\ Val(results[1].error).kind = "validation"
        /\ results[1].passed = None
        /\ HasScore(results[2])
        /\ ~HasError(results[2])
        /\ IsNone(results[2].passed) <=> IsNone(results[2].threshold)
        /\ results[2].passed # Some(FALSE) => Val(response).overall_status = "WARNING"
        /\ results[2].passed = Some(FALSE) => Val(response).overall_status = "FAIL"

\* a context-requiring metric fails on a test case without retrieval_context, the
\* metric after it is scored and passes, and the response is WARNING
C7_Witness ==
    /\ C7_Case
    /\ req.metrics[1] = SEL_FAITHFULNESS
    /\ \E k \in 1..Len(req.test_cases) : IsNone(req.test_cases[k].retrieval_context)
    /\ HasError(results[1])
    /\ results[2].passed = Some(TRUE)
    /\ Val(response).overall_status = "WARNING"

\* the selection's metric declares the conversational or the arena test-case kind
Unsupported(sel) ==
    /\ Known(sel)
    /\ DefOf(sel).test_case_type \in {"ConversationalTestCase", "ArenaTestCase"}

\* the text the error of an unsupported kind carries
UnsupportedText(sel) ==
    IF DefOf(sel).test_case_type = "ConversationalTestCase"
    THEN "Conversational metrics not runnable in v1."
    ELSE "Arena metrics not runnable in v1."

\* C8 as stated: every selection of a conversational or arena metric gets an entry
\* with error set mentioning the unsupported kind, and the evidence gaps list holds an
\* entry for its metric_id.
C8_AsStated ==
    \A k \in 1..Len(results) :
        Unsupported(req.metrics[k]) =>
            /\ HasError(results[k])
            /\ Val(results[k].error).kind = "not_implemented"
            /\ \E g \in 1..Len(evidence.gaps) :
                    evidence.gaps[g].metric_id = req.metrics[k].metric_id

C8_UnsupportedKindState ==
    /\ InLoop => Len(results) = i - 1
    /\ \A k \in 1..Len(results) :
        LET sel == req.metrics[k] IN
        ( /\ Unsupported(sel)
          /\ req.test_cases # <<>>
          /\ RequirementsMet(sel, req.test_cases)
          /\ Instantiates(sel) ) =>
            /\ HasError(results[k])
            /\ ~HasScore(results[k])
            /\ Val(results[k].error).kind = "not_implemented"
            /\ Val(results[k].error).msg = UnsupportedText(sel)
            /\ \E g \in 1..Len(evidence.gaps) : evidence.gaps[g].metric_id = sel.metric_id
            /\ \A c \in 1..Len(calls) : calls[c].sel = k => calls[c].op # "measure"
            /\ (run_id \in DOMAIN store /\ store[run_id].file = "complete") =>
                    \E g \in 1..Len(Val(store[run_id].document).gaps) :
                        Val(store[run_id].document).gaps[g].metric_id = sel.metric_id

C8_UnsupportedKindStep ==
    (pc = "measure" /\ Unsupported(req.metrics[i])) =>
        /\ Len(results') = Len(results) + 1
        /\ SubSeq(results', 1, Len(results)) = results
        /\ Len(evidence'.gaps) = Len(evidence.gaps) + 1
        /\ i' = i + 1
        /\ pc' = IF i < Len(req.metrics) THEN "lookup" ELSE "returned"

\* C8 (amended): in a request with at least one test case, every selection of a
\* conversational or arena metric whose requirements are met and whose scorer is
\* resolved and constructed gets an entry with error set mentioning the unsupported
\* kind and no score, the evidence gaps list (and the written document) holds an entry
\* for its metric_id, the scorer is not asked to measure, and the loop goes on to the
\* next selection.
C8_UnsupportedKind == []C8_UnsupportedKindState /\ [][C8_UnsupportedKindStep]_vars

\* a conversational selection has its error and its gap, and the selection after it
\* has been scored
C8_Witness ==
    \E k \in 1..Len(results) :
        /\ Unsupported(req.metrics[k])
        /\ HasError(results[k])
        /\ Val(results[k].error).kind = "not_implemented"
        /\ \E g \in 1..Len(evidence.gaps) : evidence.gaps[g].metric_id = req.metrics[k].metric_id
        /\ \E l \in (k + 1)..Len(results) : HasScore(results[l])

\* an image field holds a list, or is absent or null
ListOrAbsent(x) == IsNone(x) \/ Val(x).sized

\* the number of images of an image field; an absent or null field counts as 0
ImageCount(x) == IF IsNone(x) THEN 0 ELSE Val(x).n

\* multimodal.image_editing declares "Input must contain exactly 1 image" and
\* "actual_output must contain exactly 2 images": the violations of a test case
DeclaredCountViolations(tc) ==
    (IF ImageCount(tc.image_inputs) # 1
     THEN <<Violation("multimodal.image_editing", "constraint", <<>>, C_INPUT_1,
                      ImageCount(tc.image_inputs))>>
     ELSE <<>>)
    \o (IF ImageCount(tc.image_outputs) # 2
        THEN <<Violation("multimodal.image_editing", "constraint", <<>>, C_OUTPUT_2,
                         ImageCount(tc.image_outputs))>>
        ELSE <<>>)

\* C9: for a metric with the constraint "input must contain exactly N image(s)", a test
\* case whose image_inputs count differs from N (absent or null counts as 0) yields a
\* violation naming the metric, the constraint with its N, and the actual count, and a
\* test case whose count equals N yields none; the same for "actual_output must contain
\* exactly N image(s)" against image_outputs.  The selection then ends with a validation
\* error (showing the violation when it is among the first five) and no score, and its
\* scorer is not resolved, constructed or asked to measure; with no violation and no
\* missing field the scorer is executed.
C9_ImageCountConstraint ==
    /\ \A t \in 1..Len(req.test_cases) :
        LET tc == req.test_cases[t]
            got == _apply_constraints(_metric_index["multimodal.image_editing"], tc)
        IN  (ListOrAbsent(tc.image_inputs) /\ ListOrAbsent(tc.image_outputs)) =>
                /\ IsNone(got.raised)
                /\ got.errors = DeclaredCountViolations(tc)
    /\ \A k \in 1..Len(results) :
        req.metrics[k].metric_id = "multimodal.image_editing" =>
            LET violating == {t \in 1..Len(req.test_cases) :
                                DeclaredCountViolations(req.test_cases[t]) # <<>>}
                first == CHOOSE t \in violating : \A u \in violating : t <= u
                executed == \E c \in 1..Len(calls) : calls[c].sel = k
            IN  /\ violating # {} =>
                    /\ HasError(results[k])
                    /\ ~HasScore(results[k])
                    /\ Val(results[k].error).kind = "validation"
                    /\ ~executed
                    /\ \/ Val(results[k].error).more
                       \/ \E n \in 1..Len(Val(results[k].error).shown) :
                            Val(results[k].error).shown[n] =
                                DeclaredCountViolations(req.test_cases[first])[1]
                /\ violating = {} =>
                    /\ HasError(results[k]) =>
                        \A n \in 1..Len(Val(results[k].error).shown) :
                            Val(results[k].error).shown[n].kind # "constraint"
                    /\ ~LacksRequiredField(req.metrics[k], req.test_cases) => executed

\* a test case with no input image makes the image-editing selection end with a
\* validation error that shows the constraint and the count 0; no scorer call is made
C9_Witness ==
    \E k \in 1..Len(results) :
        /\ req.metrics[k].metric_id = "multimodal.image_editing"
        /\ HasError(results[k])
        /\ \E n \in 1..Len(Val(results[k].error).shown) :
                Val(results[k].error).shown[n] =
                    Violation("multimodal.image_editing", "constraint", <<>>, C_INPUT_1, 0)
        /\ \A c \in 1..Len(calls) : calls[c].sel # k
        /\ \E t \in 1..Len(req.test_cases) :
                DeclaredCountViolations(req.test_cases[t]) = <<>>

\* the constraint is of the recognized form "<field> must contain exactly N images"
\* with an integer N
Recognized(c) == c \in {C_INPUT_1, C_OUTPUT_2}

\* every constraint the selection's metric declares is unrecognized text
OnlyUnrecognized(sel) ==
    /\ Known(sel)
    /\ DefOf(sel).constraints # <<>>
    /\ \A n \in 1..Len(DefOf(sel).constraints) : ~Recognized(DefOf(sel).constraints[n])

\* C10: unrecognized constraint text is always satisfied: a metric whose constraints
\* are not of the recognized form (the keyword "exactly" without a parsable integer
\* included) gets no constraint violation, and processing it never aborts the run.
C10_UnrecognizedSatisfied ==
    /\ \A k \in 1..Len(results) :
        (OnlyUnrecognized(req.metrics[k]) /\ HasError(results[k])) =>
            \A n \in 1..Len(Val(results[k].error).shown) :
                Val(results[k].error).shown[n].kind # "constraint"
    /\ RunEvaluationRaised => ~OnlyUnrecognized(req.metrics[i])

\* the violations one test case contributes to the validation of a selection: the
\* missing required fields (one violation naming them all), then the image counts
\* that differ from the declared ones
ViolationsOf(sel, tc) ==
    LET missing == SelectSeq(DefOf(sel).required_test_case_fields,
                             LAMBDA f : IsNone(Field(tc, f)))
    IN  (IF missing # <<>>
         THEN <<Violation(sel.metric_id, "fields", missing, <<>>, 0)>>
         ELSE <<>>)
        \o (IF sel.metric_id = "multimodal.image_editing"
            THEN DeclaredCountViolations(tc)
            ELSE <<>>)

\* the violations of test cases 1..n, in the order of the test cases
RECURSIVE CollectedViolations(_, _, _)
CollectedViolations(sel, tcs, n) ==
    IF n = 0 THEN <<>>
    ELSE CollectedViolations(sel, tcs, n - 1) \o ViolationsOf(sel, tcs[n])

\* C11: test-case validation of a metric collects the violations of all submitted
\* test cases; the metric's error shows the first five in collection order, verbatim,
\* and carries the truncation marker iff more than five were collected.
C11_ViolationsCollected ==
    \A k \in 1..Len(results) :
        LET sel == req.metrics[k]
            all == CollectedViolations(sel, req.test_cases, Len(req.test_cases))
        IN  (Known(sel) /\ MissingParams(sel) = <<>> /\ all # <<>>) =>
                /\ HasError(results[k])
                /\ Val(results[k].error).kind = "validation"
                /\ Val(results[k].error).shown = Take(all, 5)
                /\ Val(results[k].error).more <=> Len(all) > 5

\* six violations were collected from two test cases: five are shown, the fourth and
\* fifth come from the second test case, and the truncation marker is set
C11_Witness ==
    \E k \in 1..Len(results) :
        /\ Len(req.test_cases) = 2
        /\ Known(req.metrics[k])
        /\ Len(ViolationsOf(req.metrics[k], req.test_cases[1])) = 3
        /\ Len(ViolationsOf(req.metrics[k], req.test_cases[2])) = 3
        /\ HasError(results[k])
        /\ Len(Val(results[k].error).shown) = 5
        /\ Val(results[k].error).shown[4] = ViolationsOf(req.metrics[k], req.test_cases[2])[1]
        /\ Val(results[k].error).more

\* the earlier submission n was answered 200
ServedOk(n) == n <= Len(served) /\ served[n].status = 200

\* the evidence document of run rid exists, complete, at the run's location
DocumentOf(rid) == Val(store[rid].document)

HasDocument(rid) ==
    /\ rid \in DOMAIN store
    /\ store[rid].file = "complete"
    /\ ~IsNone(store[rid].document)

\* C12: running the identical request twice (the scorer is deterministic) yields two
\* distinct run_ids, two distinct evidence documents at distinct locators, the first
\* not overwritten by the second run, and metric_results identical in content and order.
C12_Rerun ==
    /\ \A n \in 1..Len(served) :
        ServedOk(n) =>
            /\ HasDocument(served[n].run_id)
            /\ served[n].evidence_pointer = Some(served[n].run_id)
            /\ DocumentOf(served[n].run_id).run_id = served[n].run_id
            /\ DocumentOf(served[n].run_id).metrics = req.metrics
            /\ run_id # 0 => run_id # served[n].run_id
    /\ \A n \in 1..Len(served) :
        (ServedOk(n) /\ Answered) =>
            /\ Val(response).run_id # served[n].run_id
            /\ Val(response).evidence_pointer # served[n].evidence_pointer
            /\ HasDocument(Val(response).run_id)
            /\ DocumentOf(Val(response).run_id) # DocumentOf(served[n].run_id)
            /\ DocumentOf(Val(response).run_id).metric_evidence =
                    DocumentOf(served[n].run_id).metric_evidence
            /\ Val(response).metric_results = served[n].metric_results
            /\ Val(response).overall_status = served[n].overall_status

\* both submissions were answered 200, with a scored metric and an errored metric
C12_Witness ==
    /\ ServedOk(1)
    /\ Answered
    /\ Val(response).run_id # served[1].run_id
    /\ Len(Val(response).metric_results) = 2
    /\ \E k \in 1..2 : HasScore(Val(response).metric_results[k])
    /\ \E k \in 1..2 : HasError(Val(response).metric_results[k])
    /\ Val(response).metric_results = served[1].metric_results

\* write_evidence raised while writing the evidence of the current run
WriteFailed == ~IsNone(exc) /\ Val(exc).raised_in = "write_evidence"

\* C13: the evidence write is all-or-nothing: when write_evidence fails (directory
\* creation, file open, serialization) no evidence document, complete or partial,
\* exists at the run's location; when it succeeds the complete document exists at the
\* returned locator, in the location dedicated to the run_id.
C13_AllOrNothing ==
    /\ WriteFailed =>
            \/ run_id \notin DOMAIN store
            \/ store[run_id].file = "absent"
    /\ Answered =>
            /\ Val(response).evidence_pointer = Some(Val(response).run_id)
            /\ HasDocument(Val(response).run_id)
            /\ DocumentOf(Val(response).run_id) = evidence

\* the calls of write_evidence made for the request
EvidenceWrites == {c \in 1..Len(calls) : calls[c].op = "write_evidence"}

\* C14: evidence is written exactly once per accepted request, after every metric
\* selection has reached its outcome and before the response is built; when the write
\* fails the request fails as a whole: no response carries run_id, overall_status or
\* metric_results.
C14_EvidenceWrittenOnce ==
    /\ Cardinality(EvidenceWrites) <= 1
    /\ EvidenceWrites # {} =>
            /\ ~Rejected
            /\ Len(results) = Len(req.metrics)
            /\ pc \in {"written", "raised", "done"}
    /\ IsNone(response) => pc # "done"
    /\ ~IsNone(response) =>
            /\ ~Rejected => Cardinality(EvidenceWrites) = 1
            /\ Val(response).status = 200 <=> (~Rejected /\ ~WriteFailed)
            /\ Val(response).status # 200 =>
                    /\ Val(response).run_id = 0
                    /\ Val(response).overall_status = ""
                    /\ Val(response).metric_results = <<>>

\* the catalogue entry lacks one of the keys build_metric_index reads with m[...]
Malformed(entry) ==
    \/ IsNone(entry.metric_id)
    \/ IsNone(entry.metric_class)
    \/ IsNone(entry.test_case_type)

\* C15: building the metric index fails fast: when any metric entry of the catalogue
\* lacks metric_id, the scorer class reference or the test-case kind, build_metric_index
\* raises and no index is published, not even for the entries before the malformed one;
\* otherwise the index has an entry for every metric entry, keyed by its metric_id.
C15_IndexFailsFast ==
    /\ startup = "importing" => IsNone(published)
    /\ startup = "failed" =>
            /\ \E k \in 1..Len(catalogue) : Malformed(catalogue[k])
            /\ IsNone(published)
    /\ startup = "serving" =>
            /\ \A k \in 1..Len(catalogue) : ~Malformed(catalogue[k])
            /\ ~IsNone(published)
            /\ DOMAIN Val(published) = {Val(catalogue[k].metric_id) : k \in 1..Len(catalogue)}
            /\ \A k \in 1..Len(catalogue) :
                    LET entry == Val(published)[Val(catalogue[k].metric_id)] IN
                    /\ entry.metric_id = Val(catalogue[k].metric_id)
                    /\ \E l \in k..Len(catalogue) :
                            /\ catalogue[l].metric_id = catalogue[k].metric_id
                            /\ entry.metric_class = Val(catalogue[l].metric_class)
                            /\ entry.test_case_type = Val(catalogue[l].test_case_type)

\* the import failed on a catalogue whose first entry is well-formed and whose last
\* entry lacks a mandatory key: nothing is published
C15_Witness ==
    /\ startup = "failed"
    /\ Len(catalogue) >= 2
    /\ ~Malformed(catalogue[1])
    /\ Malformed(catalogue[Len(catalogue)])
    /\ IsNone(published)

\* the selection gets as far as the execution steps (its requirements are met and its
\* metric is not of an unsupported kind) and one of them fails: resolving the class,
\* constructing the scorer, adapting or measuring a test case, or averaging
ExecutionFails(sel, tcs) ==
    /\ Known(sel)
    /\ RequirementsMet(sel, tcs)
    /\ ~Unsupported(sel)
    /\ ~(Instantiates(sel) /\ ScorerSucceeds(sel, tcs))

\* C16: a failure while resolving the scorer class, constructing the scorer, adapting a
\* test case or measuring is caught for that selection only: its entry has error set
\* naming the failure type and message, and no score; the exception does not leave
\* run_evaluation, and the loop goes on with the next selection.
C16_ExecutionFailureIsolated ==
    /\ InLoop => Len(results) = i - 1
    /\ RunEvaluationRaised => \A c \in 1..Len(calls) : calls[c].sel # i
    /\ \A k \in 1..Len(results) :
        ExecutionFails(req.metrics[k], req.test_cases) =>
            /\ HasError(results[k])
            /\ ~HasScore(results[k])
            /\ Val(results[k].error).kind \in {"init_failed", "execution_failed"}
            /\ Val(results[k].error).exception # ""

\* the lifecycle state of the selection being processed: PENDING before its catalogue
\* entry is looked up, VALIDATING during the checks of runner.py 129-150, RESOLVING
\* while the class is resolved and constructed, EXECUTING from the first test case on
Stage ==
    IF pc = "lookup" THEN 0
    ELSE IF pc \in {"validate_init", "validate_tc"} THEN 1
    ELSE IF pc = "instantiate" THEN 2
    ELSE 3

\* the scorer library has been called (resolve, construct, adapt or measure) for
\* selection k of this request
ScorerUsedFor(k) == \E c \in 1..Len(calls) : calls[c].sel = k

\* a step inside the loop either stays with the selection and moves forward by at most
\* one state, or ends it with exactly one more result and starts the next as PENDING
C17_OrderStep ==
    (InLoop /\ InLoop') =>
        \/ i' = i /\ results' = results /\ Stage' \in {Stage, Stage + 1}
        \/ /\ i' = i + 1
           /\ Len(results') = Len(results) + 1
           /\ SubSeq(results', 1, Len(results)) = results
           /\ pc' = "lookup"

\* no scorer call for a selection before its validation is over, nor ever for one
\* that ended with a validation error
C17_NoScorerOnValidationFailure ==
    /\ (InLoop /\ Stage <= 1) => ~ScorerUsedFor(i)
    /\ \A k \in 1..Len(results) :
        (HasError(results[k]) /\ Val(results[k].error).kind \in {"unknown_metric", "validation"})
            => ~ScorerUsedFor(k)

\* once the loop of a started run is left, every selection has its terminal state
C17_EveryTerminal ==
    (run_id # 0 /\ ~InLoop) => Len(results) = Len(req.metrics)

\* C17: each selection moves through PENDING, VALIDATING, RESOLVING, EXECUTING only in
\* that order and ends in exactly one terminal state; a selection whose init-param or
\* test-case validation failed never has its scorer resolved, instantiated or asked
\* to measure.
C17_Lifecycle ==
    /\ [](C17_NoScorerOnValidationFailure /\ C17_EveryTerminal)
    /\ [][C17_OrderStep]_vars

\* init_params holds the merged parameters of selection i
Merged == pc \in {"validate_init", "validate_tc", "instantiate", "measure", "aggregate"}

\* the metric of the selection declares p a required init parameter
Requires(sel, p) ==
    \E n \in 1..Len(DefOf(sel).required_metric_init_params) :
        DefOf(sel).required_metric_init_params[n] = p

\* the entry is a validation error that names p among the missing init parameters
NamesMissing(result, p) ==
    /\ HasError(result)
    /\ Val(result.error).kind = "validation"
    /\ \E v \in 1..Len(Val(result.error).shown) :
        /\ Val(result.error).shown[v].kind = "init_params"
        /\ \E n \in 1..Len(Val(result.error).shown[v].missing) :
                Val(result.error).shown[v].missing[n] = p

\* C18: the threshold override is put into init params under "threshold" only when the
\* caller's init params do not contain that key; a caller-supplied init-param threshold
\* wins over the override (it is the threshold the scorer is built with and the entry
\* reports); an override given alone satisfies a required threshold parameter.
C18_ThresholdMerge ==
    /\ Merged =>
        LET own == msel.init_params IN
        /\ "threshold" \in own.has =>
                /\ "threshold" \in init_params.has
                /\ init_params.val["threshold"] = own.val["threshold"]
        /\ ("threshold" \notin own.has /\ ~IsNone(msel.threshold)) =>
                /\ "threshold" \in init_params.has
                /\ init_params.val["threshold"] = msel.threshold
        /\ ("threshold" \notin own.has /\ IsNone(msel.threshold)) =>
                "threshold" \notin init_params.has
    /\ \A k \in 1..Len(results) :
        LET sel == req.metrics[k]
            own == sel.init_params
        IN  /\ (HasScore(results[k]) /\ "threshold" \in own.has) =>
                    results[k].threshold = own.val["threshold"]
            /\ (HasScore(results[k]) /\ "threshold" \notin own.has /\ ~IsNone(sel.threshold)) =>
                    results[k].threshold = sel.threshold
            /\ (Known(sel) /\ Requires(sel, "threshold") /\ "threshold" \notin own.has
                    /\ ~IsNone(sel.threshold)) =>
                    ~NamesMissing(results[k], "threshold")

\* a selection with both an override and an init-param threshold is scored against
\* the init-param threshold, and a selection of a metric that requires a threshold,
\* given the override alone, is scored against the override
C18_Witness ==
    /\ Len(results) = 2
    /\ req.metrics = <<SEL_RELEVANCY_BOTH, SEL_G_EVAL_FULL>>
    /\ HasScore(results[1])
    /\ results[1].threshold = Some(9)
    /\ Requires(req.metrics[2], "threshold")
    /\ HasScore(results[2])
    /\ results[2].threshold = Some(7)

\* "model" in metric_def.optional_metric_init_params
HasModelSlot(sel) ==
    \E n \in 1..Len(DefOf(sel).optional_metric_init_params) :
        DefOf(sel).optional_metric_init_params[n] = "model"

\* C19: the default judge model is injected into a selection's init params iff the
\* metric's optional init params include "model" and the caller's init params carry
\* no model; a caller-supplied model is never overwritten; the injection is in place
\* when init-param validation runs, so a metric that requires a model is not reported
\* as missing it.
C19_ModelInjection ==
    /\ Merged =>
        LET own == msel.init_params IN
        /\ "model" \in own.has =>
                /\ "model" \in init_params.has
                /\ init_params.val["model"] = own.val["model"]
        /\ "model" \notin own.has =>
                /\ "model" \in init_params.has <=> HasModelSlot(msel)
                /\ HasModelSlot(msel) => init_params.val["model"] = OllamaModel
    /\ \A k \in 1..Len(results) :
        LET sel == req.metrics[k] IN
        (Known(sel) /\ Requires(sel, "model") /\ HasModelSlot(sel)
            /\ "model" \notin sel.init_params.has) =>
                ~NamesMissing(results[k], "model")

\* a selection of a metric that requires a model, given none, has been scored with the
\* injected one, and the next selection's own model is in its init params
C19_Witness ==
    /\ req.metrics = <<SEL_G_EVAL_FULL, SEL_RELEVANCY_MODEL>>
    /\ Len(results) = 1
    /\ Requires(req.metrics[1], "model")
    /\ "model" \notin req.metrics[1].init_params.has
    /\ HasScore(results[1])
    /\ pc = "instantiate"
    /\ i = 2
    /\ init_params.val["model"] = Some("gpt-4")

\* the scorer is asked for test case n and leaves no score: the selection gets as far
\* as measuring, every test case before n is adapted and scored, and test case n is
\* adapted and measured without an exception and without a score
NoScoreAt(sel, tcs, n) ==
    /\ Known(sel)
    /\ RequirementsMet(sel, tcs)
    /\ DefOf(sel).test_case_type = "LLMTestCase"
    /\ Instantiates(sel)
    /\ n \in 1..Len(tcs)
    /\ \A l \in 1..n :
        /\ ~IsNone(tcs[l].input)
        /\ ~ScorerMeasure(tcs[l]).raised
        /\ IsNone(ScorerMeasure(tcs[l]).score) <=> l = n

\* the entries of results that carry a score
Scored == SelectSeq(results, HasScore)

\* C20: if the scorer yields no score for one test case of a metric, the whole metric
\* ends as an execution failure: its entry has error set and no score or passed, the
\* remaining test cases of that metric are not measured, and metric_evidence has no
\* entry for it: its entries are those of the scored selections, each with one score
\* per submitted test case.
C20_NoPartialScores ==
    /\ \A k \in 1..Len(results) : \A n \in 1..Len(req.test_cases) :
        NoScoreAt(req.metrics[k], req.test_cases, n) =>
            /\ HasError(results[k])
            /\ Val(results[k].error).kind = "execution_failed"
            /\ Val(results[k].error).exception = "RuntimeError"
            /\ ~HasScore(results[k])
            /\ results[k].passed = None
            /\ \A c \in 1..Len(calls) :
                (calls[c].sel = k /\ calls[c].op \in {"adapt", "measure"}) => calls[c].tc <= n
    /\ Len(evidence.metric_evidence) = Len(Scored)
    /\ \A e \in 1..Len(evidence.metric_evidence) :
        /\ evidence.metric_evidence[e].metric_id = Scored[e].metric_id
        /\ Len(evidence.metric_evidence[e].scores) = Len(req.test_cases)

\* the scorer was asked for the first of two test cases and left no score: the
\* selection ended as an execution failure, the second test case was never handed to
\* the scorer, metric_evidence is empty, and the loop went on to the next selection
C20_Witness ==
    /\ Len(results) = 2
    /\ Len(req.test_cases) = 2
    /\ NoScoreAt(req.metrics[1], req.test_cases, 1)
    /\ HasError(results[1])
    /\ \E c \in 1..Len(calls) : calls[c] = [op |-> "measure", sel |-> 1, tc |-> 1]
    /\ ~\E c \in 1..Len(calls) : calls[c].sel = 1 /\ calls[c].tc = 2
    /\ evidence.metric_evidence = <<>>

\* the entry is scored and the scorer it was scored with exposes no threshold
NoVerdict(result) == HasScore(result) /\ IsNone(result.threshold)

\* C21: passed is true or false only when the instantiated scorer exposes a non-null
\* threshold; a scored result of a scorer without threshold reports passed as null,
\* and such a metric by itself makes the run neither FAIL nor WARNING: a run is FAIL
\* or WARNING only through one of its other entries.
C21_UnknownVerdictState ==
    /\ \A k \in 1..Len(results) :
        /\ HasScore(results[k]) => (IsNone(results[k].passed) <=> IsNone(results[k].threshold))
        /\ ~HasScore(results[k]) => IsNone(results[k].passed)
    /\ Answered =>
        LET rs == Val(response).metric_results
            status == Val(response).overall_status
        IN  /\ status = "FAIL" => \E k \in 1..Len(rs) : ~NoVerdict(rs[k]) /\ rs[k].passed = Some(FALSE)
            /\ status = "WARNING" => \E k \in 1..Len(rs) : ~NoVerdict(rs[k]) /\ HasError(rs[k])
            /\ (\A k \in 1..Len(rs) : NoVerdict(rs[k])) => status = "PASS"

\* the scorer's threshold is the one it was constructed with, else its own default,
\* and the scored entry carries it
C21_UnknownVerdictStep ==
    /\ (pc = "instantiate" /\ pc' \in {"measure", "aggregate"}) =>
            /\ ~IsNone(metric_obj')
            /\ Val(metric_obj').threshold =
                    IF "threshold" \in init_params.has THEN init_params.val["threshold"]
                    ELSE ScorerDefaultThreshold(metric_def.metric_class)
    /\ (pc = "aggregate" /\ metric_scores # <<>>) =>
            /\ results'[i].threshold = Val(metric_obj).threshold
            /\ IsNone(results'[i].passed) <=> IsNone(Val(metric_obj).threshold)

C21_UnknownVerdict == []C21_UnknownVerdictState /\ [][C21_UnknownVerdictStep]_vars

\* the run's only metric was scored by a scorer without threshold: passed is null and
\* the run is answered PASS
C21_Witness ==
    /\ Answered
    /\ Len(results) = 1
    /\ NoVerdict(results[1])
    /\ IsNone(results[1].passed)
    /\ Val(response).overall_status = "PASS"

\* the scores the scorer gives to the test cases, in test-case order
RawScores(tcs) == [n \in 1..Len(tcs) |-> Val(ScorerMeasure(tcs[n]).score)]

\* the score lies on the passing side of the threshold (both in tenths)
PassingSide(sel, score, threshold) ==
    IF DefOf(sel).threshold_semantics = "maximum_is_passing"
    THEN score <= threshold
    ELSE score >= threshold

\* C22: a scored metric's score is the arithmetic mean of the scores of all submitted
\* test cases, and passed compares that mean, not the single scores, with the
\* threshold.
C22_MeanDecides ==
    \A k \in 1..Len(results) :
        HasScore(results[k]) =>
            LET raw == RawScores(req.test_cases)
                score == Val(results[k].score)
                n == Len(req.test_cases)
            IN  /\ n > 0
                /\ score.den > 0
                /\ score.num * n = SumSeq(raw) * score.den
                /\ ~IsNone(results[k].threshold) =>
                        results[k].passed =
                            Some(IF DefOf(req.metrics[k]).threshold_semantics = "maximum_is_passing"
                                 THEN SumSeq(raw) <= Val(results[k].threshold) * n
                                 ELSE SumSeq(raw) >= Val(results[k].threshold) * n)

\* over the same test cases one metric passes although a test case scored on the
\* failing side of its threshold, and another fails although a test case scored on
\* the passing side of its threshold
C22_Witness ==
    /\ Len(results) = 2
    /\ results[1].passed = Some(TRUE)
    /\ \E n \in 1..Len(req.test_cases) :
            ~PassingSide(req.metrics[1], RawScores(req.test_cases)[n] , Val(results[1].threshold))
    /\ results[2].passed = Some(FALSE)
    /\ \E n \in 1..Len(req.test_cases) :
            PassingSide(req.metrics[2], RawScores(req.test_cases)[n], Val(results[2].threshold))

\* the reason attributes the scorer leaves that are strings of at least one character,
\* in test-case order
NonEmptyReasons(tcs) ==
    LET given == SelectSeq(tcs, LAMBDA tc : /\ ~IsNone(ScorerMeasure(tc).reason)
                                            /\ Val(ScorerMeasure(tc).reason) # <<>>)
    IN  [n \in 1..Len(given) |-> Val(ScorerMeasure(given[n]).reason)]

\* the reasons that still have a character once surrounding whitespace is stripped,
\* stripped, in test-case order
StrippedReasons(tcs) ==
    LET given == SelectSeq(NonEmptyReasons(tcs), LAMBDA r : Strip(r) # <<>>)
    IN  [n \in 1..Len(given) |-> Strip(given[n])]

\* the position in metric_evidence of the entry of scored result k
EvidenceIndex(k) == Cardinality({l \in 1..k : HasScore(results[l])})

\* what C23 says of a scored result, for a given reading of its list of reasons
C23_Case(reasons) ==
    \A k \in 1..Len(results) :
        HasScore(results[k]) =>
            LET entry == evidence.metric_evidence[EvidenceIndex(k)]
                kept == reasons
            IN  /\ results[k].reason = IF kept = <<>> THEN None ELSE Some(kept[1])
                /\ entry.metric_id = results[k].metric_id
                /\ entry.scores = RawScores(req.test_cases)
                /\ Len(entry.reasons) <= 3
                /\ entry.reasons = SubSeq(kept, 1, IF Len(kept) < 3 THEN Len(kept) ELSE 3)

\* C23 as stated: the result's reason is the first non-empty reason string in test-case
\* order (null when there is none), and the evidence entry has one score per submitted
\* test case in order and at most the first three non-empty reasons.
C23_AsStated == C23_Case(NonEmptyReasons(req.test_cases))

\* C23: the result's reason is the first reason in test-case order that is not blank
\* (it has a character other than whitespace), with surrounding whitespace stripped,
\* null when there is none; the evidence entry has one score per submitted test case
\* in order and at most the first three such stripped reasons.
C23_ReasonsRecorded == C23_Case(StrippedReasons(req.test_cases))

\* a blank reason came first and four more followed: the blank one was skipped, the
\* result's reason is the stripped second one, and the evidence keeps three
C23_Witness ==
    /\ Len(results) = 1
    /\ HasScore(results[1])
    /\ Len(req.test_cases) = 5
    /\ ScorerMeasure(req.test_cases[1]).reason = Some(R_BLANK)
    /\ Len(StrippedReasons(req.test_cases)) = 4
    /\ results[1].reason = Some(Strip(Val(ScorerMeasure(req.test_cases[2]).reason)))
    /\ results[1].reason # ScorerMeasure(req.test_cases[2]).reason
    /\ Len(evidence.metric_evidence[1].reasons) = 3

\* the calls into the scorer library made so far, without the evidence write
ScorerCalls == SelectSeq(calls, LAMBDA c : c.op # "write_evidence")

\* the measure calls made for selection k, in the order they were made
MeasureCalls(k) == SelectSeq(calls, LAMBDA c : c.op = "measure" /\ c.sel = k)

\* the selections are taken one after another in submission order, each started only
\* when the one before has its outcome; the test cases of a selection are measured in
\* submission order, each at most once, and all of them when the selection is scored
C24_SequentialState ==
    /\ InLoop => Len(results) = i - 1
    /\ \A c \in 1..Len(ScorerCalls) :
        /\ ScorerCalls[c].sel \in 1..(Len(results) + 1)
        /\ \A d \in c..Len(ScorerCalls) : ScorerCalls[c].sel <= ScorerCalls[d].sel
    /\ \A k \in 1..Len(req.metrics) :
        /\ Len(MeasureCalls(k)) <= Len(req.test_cases)
        /\ \A m \in 1..Len(MeasureCalls(k)) : MeasureCalls(k)[m].tc = m
        /\ (k <= Len(results) /\ HasScore(results[k])) =>
                Len(MeasureCalls(k)) = Len(req.test_cases)

\* a step only adds calls for the selection being processed, keeps the results it has,
\* and once a selection has its outcome no call is made for it again
C24_SequentialStep ==
    /\ Len(calls') >= Len(calls)
    /\ SubSeq(calls', 1, Len(calls)) = calls
    /\ \A c \in (Len(calls) + 1)..Len(calls') :
        calls'[c].op # "write_evidence" => (InLoop /\ calls'[c].sel = i)
    /\ Len(results') >= Len(results) => SubSeq(results', 1, Len(results)) = results
    /\ InLoop => i' \in {i, i + 1}
    /\ (InLoop /\ i' = i + 1) => Len(results') = Len(results) + 1

\* C24: metric selections are processed strictly one after another in submission
\* order, test cases within a metric are measured strictly in submission order, and
\* nothing is retried: each (selection, test case) pair is measured at most once, and
\* after a scoring failure no further test case is measured for that selection.
C24_Sequential == []C24_SequentialState /\ [][C24_SequentialStep]_vars

\* the scorer failed on the first of two test cases for both selections: each was
\* asked once for test case 1 and never for test case 2
C24_Witness ==
    /\ Len(results) = 2
    /\ Len(req.test_cases) = 2
    /\ HasError(results[1])
    /\ Val(results[1].error).kind = "execution_failed"
    /\ HasError(results[2])
    /\ SelectSeq(calls, LAMBDA c : c.op = "measure") =
            << [op |-> "measure", sel |-> 1, tc |-> 1], [op |-> "measure", sel |-> 2, tc |-> 1] >>

\* the selections for which the runner records a gap: their metric is of a kind the
\* runner cannot execute, and they get as far as the first of at least one test case
GapSelections ==
    SelectSeq(req.metrics,
              LAMBDA sel : /\ Unsupported(sel)
                           /\ RequirementsMet(sel, req.test_cases)
                           /\ Instantiates(sel)
                           /\ req.test_cases # <<>>)

\* the document holds the request as submitted and the gaps recorded during the run
C25_RequestAndGaps(doc) ==
    /\ doc.run_id = Val(response).run_id
    /\ doc.context = Some(req.context)
    /\ doc.metrics = req.metrics
    /\ doc.test_cases = req.test_cases
    /\ doc.gaps = evidence.gaps
    /\ Len(doc.gaps) = Len(GapSelections)
    /\ \A g \in 1..Len(doc.gaps) : doc.gaps[g].metric_id = GapSelections[g].metric_id

\* the document's entry e holds the raw scores and the kept reasons of result k
C25_EntryOf(doc, e, k) ==
    /\ e \in 1..Len(doc.metric_evidence)
    /\ doc.metric_evidence[e].metric_id = results[k].metric_id
    /\ doc.metric_evidence[e].metric_class = DefOf(req.metrics[k]).metric_class
    /\ doc.metric_evidence[e].scores = RawScores(req.test_cases)
    /\ LET kept == StrippedReasons(req.test_cases) IN
       doc.metric_evidence[e].reasons = SubSeq(kept, 1, IF Len(kept) < 3 THEN Len(kept) ELSE 3)

\* C25 as stated: the evidence document of a run contains the request context, the
\* metric selections and test cases as submitted, the raw per-test-case scores and
\* reasons of every metric of the run, and the accumulated gaps list.
C25_AsStated ==
    Answered =>
        /\ HasDocument(Val(response).run_id)
        /\ LET doc == DocumentOf(Val(response).run_id) IN
           /\ C25_RequestAndGaps(doc)
           /\ \A k \in 1..Len(req.metrics) :
                \E e \in 1..Len(doc.metric_evidence) :
                    doc.metric_evidence[e].metric_id = req.metrics[k].metric_id

\* C25: the evidence document of a run contains the request context, the metric
\* selections and test cases as submitted, the accumulated gaps list, and the raw
\* per-test-case scores and reasons of every scored metric of the run, in the order of
\* the selections; a metric that ended with an error has no entry.
C25_EvidenceDocument ==
    Answered =>
        /\ HasDocument(Val(response).run_id)
        /\ LET doc == DocumentOf(Val(response).run_id) IN
           /\ C25_RequestAndGaps(doc)
           /\ Len(doc.metric_evidence) = Len(Scored)
           /\ \A k \in 1..Len(results) :
                HasScore(results[k]) => C25_EntryOf(doc, EvidenceIndex(k), k)

\* an answered run of a scored metric and a conversational one: its document has the
\* request's context, one entry of scores and one gap
C25_Witness ==
    /\ Answered
    /\ req.context = CONTEXT_DEV
    /\ Len(req.test_cases) = 2
    /\ Len(results) = 2
    /\ HasScore(results[1])
    /\ Unsupported(req.metrics[2])
    /\ HasDocument(run_id)
    /\ DocumentOf(run_id).context = Some(CONTEXT_DEV)
    /\ Len(DocumentOf(run_id).metric_evidence) = 1
    /\ Len(DocumentOf(run_id).metric_evidence[1].scores) = 2
    /\ Len(DocumentOf(run_id).gaps) = 1

\* the entry has exactly one of score and error, and with error it has no threshold
\* and no passed
ScoreOrError(result) ==
    /\ HasScore(result) <=> ~HasError(result)
    /\ HasError(result) =>
            /\ IsNone(result.score)
            /\ IsNone(result.threshold)
            /\ IsNone(result.passed)

\* C26: in every result entry produced by run_evaluation exactly one of score and
\* error is present: a scored entry carries no error, and an entry with error carries
\* no score, no threshold and no passed value; the response reports the entries as
\* the run produced them.
C26_ScoreXorError ==
    /\ \A k \in 1..Len(results) : ScoreOrError(results[k])
    /\ Answered =>
        \A k \in 1..Len(Val(response).metric_results) :
            ScoreOrError(Val(response).metric_results[k])

\* an answered run with a scored entry that has a verdict and an entry with an error
C26_Witness ==
    /\ Answered
    /\ Len(results) = 2
    /\ HasScore(results[1])
    /\ ~IsNone(results[1].passed)
    /\ HasError(results[2])
    /\ Val(response).metric_results = results

\* C27: for a request with at least one metric selection and zero test cases, every
\* selection ends with an error and none with a score: a known metric that passes
\* init-param validation and resolves ends as an execution failure (the mean over zero
\* scores is a division by zero), an unsupported-kind metric records no gap, and
\* overall_status is WARNING.
C27_NoTestCases ==
    (req.metrics # <<>> /\ req.test_cases = <<>>) =>
        /\ ~RunEvaluationRaised
        /\ \A k \in 1..Len(results) :
            LET sel == req.metrics[k] IN
            /\ HasError(results[k])
            /\ Truthy(results[k].error)
            /\ ~HasScore(results[k])
            /\ (Known(sel) /\ MissingParams(sel) = <<>> /\ Instantiates(sel)) =>
                    /\ Val(results[k].error).kind = "execution_failed"
                    /\ Val(results[k].error).exception = "ZeroDivisionError"
        /\ evidence.gaps = <<>>
        /\ evidence.metric_evidence = <<>>
        /\ \A c \in 1..Len(calls) : calls[c].op \notin {"adapt", "measure"}
        /\ Answered =>
            /\ Len(Val(response).metric_results) = Len(req.metrics)
            /\ Val(response).overall_status = "WARNING"

\* an answered request without test cases: a resolvable single-turn metric ended with
\* the division by zero, a conversational one with an error and no gap
C27_Witness ==
    /\ Answered
    /\ req.test_cases = <<>>
    /\ Len(results) = 2
    /\ ~Unsupported(req.metrics[1])
    /\ Val(results[1].error).exception = "ZeroDivisionError"
    /\ Unsupported(req.metrics[2])
    /\ HasError(results[2])
    /\ evidence.gaps = <<>>
    /\ Val(response).overall_status = "WARNING"

\* the init params the runner works with are those of the selection being processed
\* and of no other: each key it holds is the selection's own, the threshold override
\* or the injected model
OwnInitParams ==
    \A p \in ParamNames :
        /\ p \in init_params.has <=>
                \/ p \in msel.init_params.has
                \/ p = "threshold" /\ ~IsNone(msel.threshold)
                \/ p = "model" /\ HasModelSlot(msel)
        /\ p \in init_params.has => init_params.val[p] = EffectiveValue(msel, p)

\* the evidence, and the document once written, hold the selections and test cases of
\* the request as they were submitted
C28_InputsUnchangedState ==
    /\ published = Some(_metric_index)
    /\ run_id # 0 =>
            /\ evidence.metrics = req.metrics
            /\ evidence.test_cases = req.test_cases
    /\ (run_id # 0 /\ HasDocument(run_id)) =>
            /\ DocumentOf(run_id).metrics = req.metrics
            /\ DocumentOf(run_id).test_cases = req.test_cases
    /\ Merged => OwnInitParams

C28_InputsUnchangedStep ==
    /\ req' = req
    /\ published' = published
    /\ catalogue' = catalogue

\* C28: run_evaluation leaves its inputs unchanged: the threshold merge and the model
\* injection act on a per-selection copy of init_params, so the metric selections, the
\* test cases and the metric index are the same before and after the run, the metrics
\* recorded in the evidence equal the selections as submitted, and the init params of
\* one selection are never affected by the processing of another.
C28_InputsUnchanged == []C28_InputsUnchangedState /\ [][C28_InputsUnchangedStep]_vars

\* the first selection was scored with an injected model and a merged threshold, and
\* the document of the answered run shows the selection without either
C28_Witness ==
    /\ Answered
    /\ Len(results) = 2
    /\ req.metrics[1] = SEL_G_EVAL_FULL
    /\ HasScore(results[1])
    /\ results[1].cost_signal = Some("llm_based")
    /\ results[1].threshold = Some(7)
    /\ HasDocument(run_id)
    /\ DocumentOf(run_id).metrics[1].init_params.has = {"criteria"}
    /\ req.metrics[2] = SEL_EXACT_MODEL

\* the results that were produced by the handler of NotImplementedError
\* (runner.py 220-225), in the order of the selections
ThroughNotImplemented ==
    SelectSeq(results, LAMBDA r : HasError(r) /\ Val(r.error).kind = "not_implemented")

\* C29: after any run the evidence gaps list holds exactly one entry for each metric
\* selection whose result was produced by the unsupported-kind (NotImplementedError)
\* path, however many test cases were submitted, and no entry for any other selection:
\* the number of gaps equals the number of results reported through that path.
C29_GapPerUnsupported ==
    /\ Len(evidence.gaps) = Len(ThroughNotImplemented)
    /\ \A g \in 1..Len(evidence.gaps) :
        g <= Len(ThroughNotImplemented) =>
            evidence.gaps[g].metric_id = ThroughNotImplemented[g].metric_id
    /\ \A k \in 1..Len(results) :
        (HasError(results[k]) /\ Val(results[k].error).kind = "not_implemented") =>
            Unsupported(req.metrics[k])

\* C30: overall_status is PASS only if every metric selection of the run has a result
\* with a score and none has passed = false; a selection that ended without a score,
\* whatever the cause and whatever the text of its error, makes overall_status WARNING
\* or FAIL.
C30_PassMeansAllScored ==
    Answered =>
        LET rs == Val(response).metric_results
            status == Val(response).overall_status
        IN  /\ Len(rs) = Len(req.metrics)
            /\ status \in {"PASS", "WARNING", "FAIL"}
            /\ status = "PASS" =>
                    \A k \in 1..Len(rs) : HasScore(rs[k]) /\ rs[k].passed # Some(FALSE)
            /\ (\E k \in 1..Len(rs) : ~HasScore(rs[k])) => status \in {"WARNING", "FAIL"}

=============================================================================
